---------------------------- MODULE Spec2Model ----------------------------
(***************************************************************************)
(* A model of the longest-common-repeat pipeline: range-minimum queries,  *)
(* rolling polynomial hashing, robust-winnowing minimizers, the sparse    *)
(* suffix array build, the two-tree maximum common weight sweep and the   *)
(* LCR driver.  Vectors are TLA+ sequences; the source indexes from 0, so *)
(* element i of a vector v is v[i + 1] (written At(v, i)).                *)
(***************************************************************************)
EXTENDS Integers, Sequences, FiniteSets, TLC

VARIABLES
    rmq_pc,      \* "init" | "built" | "queried"
    rmq_a,       \* MaskRmq.a / the array handed to SparseTable::new
    rmq_masks,   \* MaskRmq.masks, each u64 as the set of its set bit indices
    rmq_sparse,  \* MaskRmq.sparse (SparseTable over the block minima)
    rmq_table,   \* a SparseTable built directly over rmq_a
    rmq_range,   \* the last queried range <<l, r>>
    rmq_out,     \* the last answers [mask |-> .., sparse |-> ..]
    mcw,         \* max_common_weight: its arguments, locals and program point
    rh,          \* RollingHash: the text and block size, then the hasher and a query
    ssa,         \* Ssa::new_params: arguments, locals, the dfs call stack, builds to run
    lcr          \* lcr: the text and L, then its locals and the callee it is in

rmqVars == <<rmq_pc, rmq_a, rmq_masks, rmq_sparse, rmq_table, rmq_range, rmq_out>>

vars == <<rmqVars, mcw, rh, ssa, lcr>>

\* what the actions of one component leave alone
notRmq == <<mcw, rh, ssa, lcr>>
notMcw == <<rmqVars, rh, ssa, lcr>>
notRh == <<rmqVars, mcw, ssa, lcr>>
notSsa == <<rmqVars, mcw, rh, lcr>>
notLcr == <<rmqVars, mcw, rh, ssa>>

(***************************************************************************)
(* Generic helpers                                                         *)
(***************************************************************************)
At(v, i) == v[i + 1]

Min2(x, y) == IF x <= y THEN x ELSE y

Max2(x, y) == IF x >= y THEN x ELSE y

SetMin(S) == CHOOSE x \in S : \A y \in S : x <= y

SetMax(S) == CHOOSE x \in S : \A y \in S : x >= y

RECURSIVE pow2(_)
pow2(k) == IF k = 0 THEN 1 ELSE 2 * pow2(k - 1)

\* usize::ilog2: floor of the base-2 logarithm, defined for x >= 1
RECURSIVE ilog2(_)
ilog2(x) == IF x <= 1 THEN 0 ELSE 1 + ilog2(x \div 2)

\* e, after v has been evaluated: keeps long loops from nesting their evaluation
Seq2(v, e) == IF v = v THEN e ELSE e

div_ceil(x, y) == (x + y - 1) \div y

\* slice minimum a[l..r)
RECURSIVE SliceMin(_, _, _)
SliceMin(a, l, r) ==
    IF r - l = 1 THEN At(a, l)
    ELSE LET mid == (l + r) \div 2
         IN  Min2(SliceMin(a, l, mid), SliceMin(a, mid, r))

(***************************************************************************)
(* rmq: SparseTable and MaskRmq                                            *)
(***************************************************************************)
\* number of bits of the mask word B = u64
W == 64

\* bounds of the RMQ inputs
RmqSmallLen == 4
RmqMaxVal == 2
RmqSlack == 2

\* one row of SparseTable::new's inner loop: row k from row k - 1
STRow(table, n, k) ==
    LET len == pow2(k - 1)
    IN  [x \in 1..Len(table) |->
            LET i == (x - 1) - k * n
            IN  IF i >= 0 /\ i < n - len
                THEN Min2(At(table, (k - 1) * n + i), At(table, (k - 1) * n + i + len))
                ELSE table[x]]

RECURSIVE STRows(_, _, _, _)
STRows(table, n, k, logn) ==
    IF k > logn THEN table ELSE STRows(STRow(table, n, k), n, k + 1, logn)

\* SparseTable::new: n * (logn + 1) packed entries, row 0 a copy of a
SparseTableNew(a) ==
    LET n == Len(a)
        logn == ilog2(n)
        table0 == [x \in 1..(n * (logn + 1)) |-> IF x <= n THEN a[x] ELSE 0]
    IN  [n |-> n, table |-> STRows(table0, n, 1, logn)]

\* SparseTable::query(l..r)
SparseTableQuery(st, l, r) ==
    LET k == ilog2(r - l)
    IN  Min2(At(st.table, k * st.n + l), At(st.table, k * st.n + r - pow2(k)))

\* a.chunks(W).map(min)
ChunkMins(a) ==
    [b \in 1..div_ceil(Len(a), W) |->
        SliceMin(a, (b - 1) * W, Min2(b * W, Len(a)))]

\* mask <<= 1 on a u64: bit 63 is shifted out
Shl1(mask) == {b + 1 : b \in {c \in mask : c + 1 < W}}

\* the while loop of MaskRmq::new: clear low bits of values larger than x
RECURSIVE ClearLarger(_, _, _, _)
ClearLarger(a, i, mask, x) ==
    IF mask = {} THEN mask
    ELSE LET tz == SetMin(mask)
         IN  IF At(a, i + tz) > x
             THEN ClearLarger(a, i, mask \ {tz}, x)
             ELSE mask

\* one iteration of the reversed loop of MaskRmq::new, at index i
MaskStep(a, i, st) ==
    LET m == ClearLarger(a, i, Shl1(st.mask), At(a, i)) \cup {0}
    IN  [mask |-> m, masks |-> [st.masks EXCEPT ![i + 1] = m]]

\* the iterations i = hi-1, hi-2, .., lo of that loop, in this order
RECURSIVE MaskLoop(_, _, _, _)
MaskLoop(a, lo, hi, st) ==
    IF hi <= lo THEN st
    ELSE IF hi - lo = 1 THEN MaskStep(a, lo, st)
    ELSE LET mid == (lo + hi) \div 2
             upper == MaskLoop(a, mid, hi, st)
         IN  Seq2(upper, MaskLoop(a, lo, mid, upper))

MaskRmqMasks(a) ==
    MaskLoop(a, 0, Len(a), [mask |-> {}, masks |-> [x \in 1..Len(a) |-> {}]]).masks

\* the closure mask_min of MaskRmq::query; bitmask is the set of its set bits
mask_min(a, masks, pos, bitmask) ==
    LET mask == At(masks, pos) \cap bitmask
        offset == SetMax(mask)
    IN  At(a, pos + offset)

AllBits == 0..(W - 1)

\* a bitmask one bit too short for a range inside one word
MaskRmqQueryShort(a, masks, sparse, l, r) ==
    IF r - l < W
    THEN mask_min(a, masks, l, 0..Max2(r - l - 2, 0))
    ELSE LET ends == Min2(mask_min(a, masks, l, AllBits), mask_min(a, masks, r - W, AllBits))
             bl == div_ceil(l, W)
             br == r \div W
         IN  IF bl >= br THEN ends ELSE Min2(ends, SparseTableQuery(sparse, bl, br))

\* MaskRmq::query(l..r), l < r
MaskRmqQuery(a, masks, sparse, l, r) ==
    IF r - l < W
    THEN mask_min(a, masks, l, 0..(r - l - 1))
    ELSE LET ends == Min2(mask_min(a, masks, l, AllBits), mask_min(a, masks, r - W, AllBits))
             bl == div_ceil(l, W)
             br == r \div W
         IN  IF bl >= br THEN ends ELSE Min2(ends, SparseTableQuery(sparse, bl, br))

\* the arrays the RMQ specification draws from: every short array over
\* 0..RmqMaxVal, and long arrays with a 0 at p, a 1 at q and 2 elsewhere
RECURSIVE SeqsOf(_, _)
SeqsOf(S, n) ==
    IF n = 0 THEN {<<>>}
    ELSE {Append(s, x) : s \in SeqsOf(S, n - 1), x \in S}

RmqBigLens == {W, 2 * W + RmqSlack}

RmqMarks(n) == {x \in {0, 1, W - 2, W - 1, W, W + 1, 2 * W - 1, 2 * W, n - 1} : x < n}

RmqBigArray(n, p, q) ==
    [x \in 1..n |-> IF x - 1 = p THEN 0 ELSE IF x - 1 = q THEN 1 ELSE 2]

RmqArrays ==
    (UNION {SeqsOf(0..RmqMaxVal, n) : n \in 1..RmqSmallLen})
    \cup {RmqBigArray(n, p, q) : n \in RmqBigLens, p \in RmqMarks(2 * W + RmqSlack),
                                 q \in RmqMarks(2 * W + RmqSlack)}

RmqEnds(n) == IF n <= RmqSmallLen THEN 0..n ELSE RmqMarks(n) \cup {n}

RmqStart(a) ==
    /\ rmq_pc = "init"
    /\ rmq_a = a
    /\ rmq_masks = <<>>
    /\ rmq_sparse = [n |-> 0, table |-> <<>>]
    /\ rmq_table = [n |-> 0, table |-> <<>>]
    /\ rmq_range = <<0, 0>>
    /\ rmq_out = [mask |-> 0, sparse |-> 0]

RmqIdle == RmqStart(<<>>)

\* MaskRmq::new(a) and SparseTable::new(a)
RmqNew ==
    /\ rmq_pc = "init"
    /\ rmq_pc' = "built"
    /\ rmq_masks' = MaskRmqMasks(rmq_a)
    /\ rmq_sparse' = SparseTableNew(ChunkMins(rmq_a))
    /\ rmq_table' = SparseTableNew(rmq_a)
    /\ UNCHANGED <<rmq_a, rmq_range, rmq_out>>
    /\ UNCHANGED notRmq

\* rmq.query(l..r) on both structures
RmqQuery ==
    /\ rmq_pc = "built"
    /\ \E l \in RmqEnds(Len(rmq_a)), r \in RmqEnds(Len(rmq_a)) :
        /\ l < r
        /\ rmq_range' = <<l, r>>
        /\ rmq_out' = [mask |-> MaskRmqQuery(rmq_a, rmq_masks, rmq_sparse, l, r),
                       sparse |-> SparseTableQuery(rmq_table, l, r)]
    /\ rmq_pc' = "queried"
    /\ UNCHANGED <<rmq_a, rmq_masks, rmq_sparse, rmq_table>>
    /\ UNCHANGED notRmq

RmqNext == RmqNew \/ RmqQuery

(***************************************************************************)
(* coloured-trees: max_common_weight                                       *)
(***************************************************************************)
\* stands for usize::MAX (Node::MAX): above every index and weight reached;
\* it is only compared, never computed with
UsizeMax == 1000000

\* bounds of the tree inputs
McwMaxN == 3
McwMaxLcp == 2

\* Ord on the tuples (b_idx, a_idx) and (weight, (u, v)): lexicographic
RECURSIVE TupleLess(_, _)
TupleLess(x, y) ==
    IF Len(x) = 0 THEN FALSE
    ELSE \/ x[1] < y[1]
         \/ x[1] = y[1] /\ TupleLess(Tail(x), Tail(y))

\* std::cmp::max on tuples
TupleMax(x, y) == IF TupleLess(y, x) THEN x ELSE y

\* v[lo..=hi].sort() on a vector of distinct tuples
SortSlice(v, lo, hi) ==
    [x \in 1..Len(v) |->
        IF x - 1 < lo \/ x - 1 > hi THEN v[x]
        ELSE CHOOSE e \in {v[y] : y \in (lo + 1)..(hi + 1)} :
                Cardinality({y \in (lo + 1)..(hi + 1) : TupleLess(v[y], e)}) = x - 1 - lo]

\* the HashMap b_inv of get_permutation: position of node in b.sa (the last one wins)
b_inv(b, node) == SetMax({i \in 0..(Len(b.sa) - 1) : At(b.sa, i) = node})

\* get_permutation: the vector of (b_idx, a_idx) pairs
get_permutation(a, b) == [x \in 1..Len(a.sa) |-> <<b_inv(b, a.sa[x]), x - 1>>]

McwPreconditionNoEnd(a, b) ==
    /\ Len(a.lcp) = Len(a.sa)
    /\ Len(a.lcp) > 0 /\ a.lcp[Len(a.lcp)] = 0
    /\ Len(b.lcp) = Len(b.sa)
    /\ Len(b.lcp) > 0
    /\ Len(a.sa) = Len(b.sa)
    /\ \A x \in 1..Len(a.sa) : \E y \in 1..Len(b.sa) : b.sa[y] = a.sa[x]

\* the asserts opening max_common_weight, and the lookups of get_permutation
McwPrecondition(a, b) ==
    /\ Len(a.lcp) = Len(a.sa)
    /\ Len(a.lcp) > 0 /\ a.lcp[Len(a.lcp)] = 0
    /\ Len(b.lcp) = Len(b.sa)
    /\ Len(b.lcp) > 0 /\ b.lcp[Len(b.lcp)] = 0
    /\ Len(a.sa) = Len(b.sa)
    /\ \A x \in 1..Len(a.sa) : \E y \in 1..Len(b.sa) : b.sa[y] = a.sa[x]

McwStart(a, b) ==
    [pc |-> "init", a |-> a, b |-> b, b_idx |-> <<>>,
     ans |-> <<0, UsizeMax, UsizeMax>>, stack |-> <<>>, i |-> 0, start |-> 0,
     rmq |-> [masks |-> <<>>, sparse |-> [n |-> 0, table |-> <<>>]]]

\* lines 20-33: asserts, get_permutation, ans, rmq and the initial stack
McwBegin(st) ==
    IF ~McwPrecondition(st.a, st.b) THEN [st EXCEPT !.pc = "abort"]
    ELSE [st EXCEPT !.pc = "while",
                    !.b_idx = get_permutation(st.a, st.b),
                    !.ans = <<0, UsizeMax, UsizeMax>>,
                    !.rmq = [masks |-> MaskRmqMasks(st.b.lcp),
                             sparse |-> SparseTableNew(ChunkMins(st.b.lcp))],
                    !.stack = << <<0, 0>> >>,
                    !.i = 0,
                    !.start = 0]

\* a while condition that leaves equal right_lcp values on the stack
McwPopEnabledStrict(st) ==
    /\ st.pc = "while"
    /\ Len(st.stack) > 0
    /\ st.stack[Len(st.stack)][2] > At(st.a.lcp, st.i)

\* the while condition of line 36
McwPopEnabled(st) ==
    /\ st.pc = "while"
    /\ Len(st.stack) > 0
    /\ st.stack[Len(st.stack)][2] >= At(st.a.lcp, st.i)

\* lines 45-50: fold the adjacent pairs k, k+1 of the sorted slice into ans
RECURSIVE McwScan(_, _, _, _, _, _)
McwScan(st, sorted, a_lcp, k, hi, ans) ==
    IF k >= hi THEN ans
    ELSE LET bl == At(sorted, k)[1]
             al == At(sorted, k)[2]
             br == At(sorted, k + 1)[1]
             ar == At(sorted, k + 1)[2]
             next == IF (al < st.start) # (ar < st.start)
                     THEN TupleMax(ans, <<a_lcp + MaskRmqQuery(st.b.lcp, st.rmq.masks,
                                                               st.rmq.sparse, bl, br), al, ar>>)
                     ELSE ans
         IN  McwScan(st, sorted, a_lcp, k + 1, hi, next)

\* a merge on a sorted copy that leaves b_idx as it was
McwPopUnsorted(st) ==
    LET top == st.stack[Len(st.stack)]
        old_start == top[1]
        a_lcp == top[2]
        sorted == SortSlice(st.b_idx, old_start, st.i)
    IN  [st EXCEPT !.stack = SubSeq(st.stack, 1, Len(st.stack) - 1),
                   !.ans = McwScan(st, sorted, a_lcp, old_start, st.i, st.ans),
                   !.start = old_start]

\* a merge that weighs the pairs with the lcp to the right of the merged range
McwPopRightLcp(st) ==
    LET top == st.stack[Len(st.stack)]
        old_start == top[1]
        a_lcp == At(st.a.lcp, st.i)
        sorted == SortSlice(st.b_idx, old_start, st.i)
    IN  [st EXCEPT !.stack = SubSeq(st.stack, 1, Len(st.stack) - 1),
                   !.b_idx = sorted,
                   !.ans = McwScan(st, sorted, a_lcp, old_start, st.i, st.ans),
                   !.start = old_start]

\* lines 37-52: one pass of the while body
McwPop(st) ==
    LET top == st.stack[Len(st.stack)]
        old_start == top[1]
        a_lcp == top[2]
        sorted == SortSlice(st.b_idx, old_start, st.i)
    IN  [st EXCEPT !.stack = SubSeq(st.stack, 1, Len(st.stack) - 1),
                   !.b_idx = sorted,
                   !.ans = McwScan(st, sorted, a_lcp, old_start, st.i, st.ans),
                   !.start = old_start]

\* line 54 and the loop header of line 34-35 for the next i
McwPush(st) ==
    [st EXCEPT !.stack = Append(st.stack, <<st.start, At(st.a.lcp, st.i)>>),
               !.i = st.i + 1,
               !.start = st.i + 1,
               !.pc = IF st.i + 1 = Len(st.a.lcp) THEN "done" ELSE "while"]

McwStep(st) ==
    IF st.pc = "init" THEN McwBegin(st)
    ELSE IF McwPopEnabled(st) THEN McwPop(st)
    ELSE McwPush(st)

\* max_common_weight(a, b) run to its end
RECURSIVE McwRun(_)
McwRun(st) == IF st.pc \in {"done", "abort"} THEN st ELSE McwRun(McwStep(st))

max_common_weight(a, b) == McwRun(McwStart(a, b))

\* max_common_weight_naive: the double loop over all pairs i < j
max_common_weight_naive(a, b) ==
    LET n == Len(a.sa)
        p == get_permutation(a, b)
        pairs == {ij \in (0..(n - 1)) \X (0..(n - 1)) : ij[1] < ij[2]}
        cands == {SliceMin(a.lcp, ij[1], ij[2])
                    + SliceMin(b.lcp, Min2(At(p, ij[1])[1], At(p, ij[2])[1]),
                                      Max2(At(p, ij[1])[1], At(p, ij[2])[1])) :
                  ij \in pairs}
    IN  IF cands = {} THEN 0 ELSE SetMax(cands)

McwIdle == mcw = McwStart([sa |-> <<>>, lcp |-> <<>>], [sa |-> <<>>, lcp |-> <<>>])

McwBeginAct ==
    /\ mcw.pc = "init"
    /\ mcw' = McwBegin(mcw)
    /\ UNCHANGED notMcw

McwPopAct ==
    /\ McwPopEnabled(mcw)
    /\ mcw' = McwPop(mcw)
    /\ UNCHANGED notMcw

McwPushAct ==
    /\ mcw.pc = "while"
    /\ ~McwPopEnabled(mcw)
    /\ mcw' = McwPush(mcw)
    /\ UNCHANGED notMcw

McwNext == McwBeginAct \/ McwPopAct \/ McwPushAct

(***************************************************************************)
(* ssa/rolling_hash: u64 arithmetic, Mod and RollingHash                   *)
(*                                                                         *)
(* A u64 is the vector of its 8 bytes, least significant first, so that    *)
(* u64::from_le_bytes is the identity on 8-byte arrays; a u128 has 16.     *)
(***************************************************************************)
\* a function over 1..n as a vector
Vec(f, n) == SubSeq(f, 1, n)

\* the k low bytes of a natural number x < 2^31
ToLimbs(x, k) ==
    Vec([i \in 1..k |-> IF i <= 4 THEN (x \div (256 ^ (i - 1))) % 256 ELSE 0], k)

\* `x as u64` for a small natural number x
U64(x) == ToLimbs(x, 8)

RECURSIVE CarrySpan(_, _, _, _)
\* the bytes of columns mid+1..hi appended to those of the columns before them
CarryJoin(w, mid, hi, left) ==
    Seq2(left, SubSeq(left, 1, Len(left) - 1) \o CarrySpan(w, mid + 1, hi, left[Len(left)]))

\* carry propagation through the column sums w[lo..hi] with carry c coming in:
\* their bytes, then the carry out (the span is halved to keep evaluation shallow)
CarrySpan(w, lo, hi, c) ==
    IF lo > hi THEN <<c>>
    ELSE IF lo = hi THEN <<(w[lo] + c) % 256, (w[lo] + c) \div 256>>
    ELSE CarryJoin(w, (lo + hi) \div 2, hi, CarrySpan(w, lo, (lo + hi) \div 2, c))

\* carry propagation through column sums w from column k on: bytes, then the carry out
Carry(w, k, c) == CarrySpan(w, k, Len(w), c)

\* u64::overflowing_add
overflowing_add(x, y) ==
    LET r == Carry(Vec([k \in 1..8 |-> x[k] + y[k]], 8), 1, 0)
    IN  [val |-> SubSeq(r, 1, 8), overflow |-> r[9] # 0]

\* x + y on u64, wrapping at 2^64
wrapping_add(x, y) == overflowing_add(x, y).val

\* x - y on u64, wrapping at 2^64: x + !y + 1
wrapping_sub(x, y) == SubSeq(Carry(Vec([k \in 1..8 |-> x[k] + (255 - y[k])], 8), 1, 1), 1, 8)

\* x < y on unsigned integers of the same width: decided by the highest byte that differs
Less(x, y) ==
    LET d == {k \in 1..Len(x) : x[k] # y[k]}
    IN  d # {} /\ x[SetMax(d)] < y[SetMax(d)]

RECURSIVE ColSum(_, _, _, _, _)
\* the sum of the byte products x[i] * y[c - i] for i in lo..hi (0-based columns)
ColSum(x, y, c, lo, hi) ==
    IF lo > hi THEN 0
    ELSE IF lo = hi THEN x[lo + 1] * y[c - lo + 1]
    ELSE ColSum(x, y, c, lo, (lo + hi) \div 2) + ColSum(x, y, c, (lo + hi) \div 2 + 1, hi)

\* x as u128 * y as u128, for u64 x and y: 16 bytes
widening_mul(x, y) ==
    SubSeq(Carry(Vec([k \in 1..16 |-> ColSum(x, y, k - 1, Max2(0, k - 8), Min2(k - 1, 7))], 16),
                 1, 0), 1, 16)

\* x * y on u64, wrapping at 2^64
wrapping_mul(x, y) == SubSeq(widening_mul(x, y), 1, 8)

\* x / 2 and x & 1 on u64
Half(x) ==
    Vec([k \in 1..8 |-> (x[k] \div 2) + (IF k < 8 THEN 128 * (x[k + 1] % 2) ELSE 0)], 8)
Odd(x) == x[1] % 2 = 1

P == <<77, 48, 222, 202, 62, 135, 212, 4>>   \* 348051774975651917
R == 15
BASE == 256

\* the multiples k * P that fit a u64, k = 0..53, at index k + 1 (54 * P > 2^64)
PTimes == Vec([k \in 1..54 |-> wrapping_mul(P, U64(k - 1))], 54)

\* the three high bytes of a u64 as a number
Top3(x) == x[8] * 65536 + x[7] * 256 + x[6]

\* x / P for a u64 x: (Top3(x) + 1) / Top3(P) or one less, since the two bounds
\* Top3(x) / (Top3(P) + 1) <= x / P < (Top3(x) + 1) / Top3(P) are less than 1 apart
Quot(x, hi) == IF hi > 0 /\ Less(x, PTimes[hi + 1]) THEN hi - 1 ELSE hi

\* x % P for a u64 x
RemP(x) == wrapping_sub(x, PTimes[Quot(x, (Top3(x) + 1) \div Top3(P)) + 1])

\* Mod(x) * f, f a u64
Fold(h2) ==
    Seq2(h2, wrapping_add(wrapping_mul(SubSeq(h2, 9, 16), U64(R)), RemP(SubSeq(h2, 1, 8))))

Rem(x) == Seq2(x, RemP(x))

ModMul(x, f) == Seq2(<<x, f>>, Rem(Fold(widening_mul(f, x))))

SubIfGeP(r) == IF ~Less(r, P) THEN wrapping_sub(r, P) ELSE r

ModAdd(x, f) == Seq2(<<x, f>>, SubIfGeP(wrapping_add(x, f)))

ModSub(x, f) == Seq2(<<x, f>>, ModAdd(x, wrapping_sub(P, f)))

FoldAdd(low, hr) == Seq2(low, Rem(wrapping_add(low, hr)))

mul_add(x, f, hr) == Seq2(<<x, f, hr>>, FoldAdd(Fold(widening_mul(x, f)), hr))

RollCarryLost(o) == Seq2(o, Rem(o.val))

RollCarry(o) ==
    Seq2(o, Rem(wrapping_add(o.val, wrapping_mul(U64(R), U64(IF o.overflow THEN 1 ELSE 0)))))

roll_add(x, c) == Seq2(<<x, c>>, RollCarry(overflowing_add(wrapping_mul(x, U64(R)), c)))

\* one turn of the loop of Mod::pow on its locals; nothing once exp <= 1
PowIter(s) ==
    IF Less(U64(1), s.exp)
    THEN [acc |-> IF Odd(s.exp) THEN ModMul(s.acc, s.base) ELSE s.acc,
          base |-> ModMul(s.base, s.base),
          exp |-> Half(s.exp)]
    ELSE s

RECURSIVE PowLoop(_, _)
\* the turns after the first half of them left the locals s
PowRest(s, k) == Seq2(s, PowLoop(s, k))

\* k turns of the loop, by halves
PowLoop(s, k) ==
    IF k = 0 THEN s
    ELSE IF k = 1 THEN PowIter(s)
    ELSE PowRest(PowLoop(s, k \div 2), k - k \div 2)

\* acc * base, after the loop
PowEnd(s) == ModMul(s.acc, s.base)

\* the position of the highest set bit of a u64 exp > 0
HighBit(exp) ==
    LET top == SetMax({k \in 1..8 : exp[k] # 0})
    IN  8 * (top - 1) + ilog2(exp[top])

\* Mod::pow, the exponent a u64: the loop halves exp while exp > 1, so it takes
\* as many turns as exp has bits below its highest set one
ModPow(x, exp) ==
    IF exp = U64(0) THEN U64(1)
    ELSE PowEnd(PowLoop([acc |-> U64(1), base |-> x, exp |-> exp], HighBit(exp)))

\* t[i..j) of a vector t (0-based, j exclusive)
Slice(t, i, j) == SubSeq(t, i + 1, j)

RECURSIVE LinearLoop(_, _, _)
\* the chunks of 8 bytes before chunk c, last chunk first
LinearLoop(t, c, h) ==
    IF c = 0 THEN h
    ELSE LET h2 == roll_add(h, Slice(t, 8 * (c - 1), 8 * c))
         IN  Seq2(h2, LinearLoop(t, c - 1, h2))

\* RollingHash::linear
linear(t) ==
    LET chunks == Len(t) \div 8
        remainder == Slice(t, 8 * chunks, Len(t))
        bytes == remainder \o SubSeq(U64(0), 1, 8 - Len(remainder))
    IN  LinearLoop(t, chunks, bytes)

\* linear_baseline, one pass of its loop: byte z.i - 1 of t
BaselineIter(t, z) ==
    [i |-> z.i - 1, h |-> mul_add(z.h, U64(BASE), U64(At(t, z.i - 1)))]

RECURSIVE BaselineLoop(_, _, _)
BaselineRest(t, z, n) == Seq2(z, BaselineLoop(t, z, n))

\* linear_baseline, n passes of its loop from the locals z on, by halves
BaselineLoop(t, z, n) ==
    IF n = 0 THEN z
    ELSE IF n = 1 THEN BaselineIter(t, z)
    ELSE BaselineRest(t, BaselineLoop(t, z, n \div 2), n - n \div 2)

\* RollingHash::linear_baseline: one byte at a time, last byte first
linear_baseline(t) == BaselineLoop(t, [i |-> Len(t), h |-> U64(0)], Len(t)).h

\* Mod(BASE).pow(P - 2)
base_inv == ModPow(U64(BASE), wrapping_sub(P, U64(2)))

RECURSIVE PrefixLoop(_, _, _, _, _, _)
\* the loop over text.chunks_exact(s) from chunk c on
PrefixLoop(text, s, f, c, f_acc, prefixes) ==
    IF (c + 1) * s > Len(text) THEN prefixes
    ELSE LET h == linear(Slice(text, c * s, (c + 1) * s))
             prefix == mul_add(h, f_acc, prefixes[Len(prefixes)])
             f_acc2 == ModMul(f_acc, f)
         IN  Seq2(<<prefix, f_acc2>>,
                  PrefixLoop(text, s, f, c + 1, f_acc2, Append(prefixes, prefix)))

is_power_of_two(x) == x > 0 /\ pow2(ilog2(x)) = x

\* RollingHash::new; the two asserts abort the construction
RollingHashNew(text, s) ==
    IF ~(s % 8 = 0 /\ is_power_of_two(s)) THEN [ok |-> FALSE]
    ELSE LET f == ModPow(U64(R), U64(s \div 8))
         IN  [ok |-> TRUE, text |-> text, s |-> s, log_s |-> ilog2(s), f |-> f,
              base_inv |-> base_inv,
              prefixes |-> PrefixLoop(text, s, f, 0, U64(1), <<U64(0)>>)]

\* RollingHash::query without the final multiplication by 256^-i
PrefixTo(h, b, i) ==
    ModAdd(At(h.prefixes, b),
           ModMul(ModPow(h.f, U64(b)), linear(Slice(h.text, b * pow2(h.log_s), i))))

RollingHashQueryNoShift(h, i, j) ==
    IF i > j \/ j > Len(h.text) THEN [ok |-> FALSE]
    ELSE IF j - i <= 2 * h.s THEN [ok |-> TRUE, h |-> linear(Slice(h.text, i, j))]
    ELSE LET l == i \div pow2(h.log_s)
             r == j \div pow2(h.log_s)
         IN  [ok |-> TRUE, h |-> ModSub(PrefixTo(h, r, j), PrefixTo(h, l, i))]

\* RollingHash::query(i..j): slicing the text out of bounds panics
RollingHashQuery(h, i, j) ==
    IF i > j \/ j > Len(h.text) THEN [ok |-> FALSE]
    ELSE IF j - i <= 2 * h.s THEN [ok |-> TRUE, h |-> linear(Slice(h.text, i, j))]
    ELSE LET l == i \div pow2(h.log_s)
             r == j \div pow2(h.log_s)
         IN  [ok |-> TRUE,
              h |-> ModMul(ModSub(PrefixTo(h, r, j), PrefixTo(h, l, i)),
                           ModPow(h.base_inv, U64(i)))]

\* bounds of the texts hashed: all lengths up to RhSmallLen, and two and four
\* blocks of each size plus RhSlack bytes
RhSmallLen == 9
RhSlack == 3
RhSeeds == 2
RhBlockSizes == {8, 16}
RhLens == (0..RhSmallLen) \cup {2 * s + RhSlack : s \in RhBlockSizes}

\* byte k of text number seed: text 0 is all 255, the others mix all byte values
RhByte(seed, k) == IF seed = 0 THEN 255 ELSE (seed * 89 + k * k * 7 + k * 151 * seed) % 256
RhText(seed, n) == Vec([k \in 1..n |-> RhByte(seed, k - 1)], n)

RhStart(text, s) == [pc |-> "init", text |-> text, s |-> s]
RhIdle == rh = RhStart(<<>>, 0)

\* let hasher = RollingHash::new(text, s)
RhNew ==
    /\ rh.pc = "init"
    /\ LET h == RollingHashNew(rh.text, rh.s)
       IN  rh' = IF h.ok THEN [pc |-> "built", hasher |-> h] ELSE [pc |-> "abort"]
    /\ UNCHANGED notRh

\* hasher.query(i..j), next to the linear hash of the same range
RhQuery ==
    /\ rh.pc = "built"
    /\ \E j \in 0..Len(rh.hasher.text) : \E i \in 0..j :
        rh' = [pc |-> "queried", hasher |-> rh.hasher, range |-> <<i, j>>,
               out |-> RollingHashQuery(rh.hasher, i, j)]
    /\ UNCHANGED notRh

RhNext == RhNew \/ RhQuery

\* test::chunked_linear on one text t: h1 = linear_baseline(&t), h2 = linear(&t)
LinStart(t) == [pc |-> "text", text |-> t]

RhChunkedLinear ==
    /\ rh.pc = "text"
    /\ rh' = [pc |-> "hashed", text |-> rh.text,
              h1 |-> linear_baseline(rh.text), h2 |-> linear(rh.text)]
    /\ UNCHANGED notRh

LinNext == RhChunkedLinear

(***************************************************************************)
(* ssa: the sparse suffix array build, Ssa::new_params and its dfs         *)
(*                                                                         *)
(* The recursion is a stack of frames; a frame is one dfs call, and names  *)
(* its slices starts[lo..hi) and lcp[lo..hi-1) by their bounds.            *)
(***************************************************************************)
\* Mod::default() and Mod::NONE: the value that marks no deferred group
ModDefault == U64(0)
NONE == <<255, 255, 255, 255, 255, 255, 255, 255>>

None == [some |-> FALSE]
Some(x) == [some |-> TRUE, v |-> x]

next_power_of_two(x) == IF x <= 1 THEN 1 ELSE 2 * pow2(ilog2(x - 1))

Reverse(v) == Vec([k \in 1..Len(v) |-> v[Len(v) + 1 - k]], Len(v))

\* v with v[lo..lo+Len(w)) replaced by w
Splice(v, lo, w) ==
    Vec([k \in 1..Len(v) |-> IF k > lo /\ k <= lo + Len(w) THEN w[k - lo] ELSE v[k]], Len(v))

witness(idx, t, cache) == IF idx <= Len(t) THEN idx ELSE At(cache, idx - Len(t) - 1)

RECURSIVE GroupLenFrom(_, _, _)
GroupLenFrom(v, i, k) ==
    IF k < Len(v) /\ At(v, k).h = At(v, i).h THEN 1 + GroupLenFrom(v, i, k + 1) ELSE 0

group_len(v, i) == GroupLenFrom(v, i, i)

\* the place item k of v takes when v is sorted by h with equal hashes kept in order
RankByH(v, k) ==
    1 + Cardinality({j \in 1..Len(v) : Less(v[j].h, v[k].h) \/ (v[j].h = v[k].h /\ j < k)})

\* the items of v, each at its place
Place(v, ranks) ==
    Vec([r \in 1..Len(v) |-> v[CHOOSE k \in 1..Len(v) : ranks[k] = r]], Len(v))

\* v in ascending order of h
SortByH(v) == Place(v, Vec([k \in 1..Len(v) |-> RankByH(v, k)], Len(v)))

\* the radix sort by the 8 bytes of h: ascending in h; it is not stable, and
\* equal hashes come out in their old order or in the opposite one
TiePolicies == {"kept", "reversed"}
radix_sort(v, tie) == SortByH(IF tie = "kept" THEN v ELSE Reverse(v))

\* starts.group_by(|a, b| a.h == b.h).count()
num_groups(v) == 1 + Cardinality({k \in 1..(Len(v) - 1) : v[k].h # v[k + 1].h})

\* the hash loop over a slice v: the queries of l bytes at witness + group_lcp
HashQueries(hasher, t, cache, v, group_lcp, l) ==
    Vec([k \in 1..Len(v) |->
            RollingHashQuery(hasher, witness(v[k].idx, t, cache) + group_lcp,
                             witness(v[k].idx, t, cache) + group_lcp + l)], Len(v))

\* every h set to its query's hash; ok is FALSE when a query panics
SetHashes(v, q) ==
    IF \E k \in 1..Len(v) : ~q[k].ok THEN [ok |-> FALSE]
    ELSE [ok |-> TRUE, v |-> Vec([k \in 1..Len(v) |-> [idx |-> v[k].idx, h |-> q[k].h]], Len(v))]

HashSlice(hasher, t, cache, v, group_lcp, l) ==
    SetHashes(v, HashQueries(hasher, t, cache, v, group_lcp, l))

RECURSIVE CompactLoop(_, _, _, _, _)
\* step 1 and 2: groups of more than one item move to the cache and leave a sentinel
CompactLoop(t, v, i, j, cache) ==
    IF i >= Len(v) THEN [v |-> v, j |-> j, cache |-> cache]
    ELSE LET gl == group_len(v, i)
         IN  IF gl = 1
             THEN CompactLoop(t, [v EXCEPT ![j + 1] = At(v, i)], i + gl, j + 1, cache)
             ELSE LET group_idx == Len(t) + 1 + Len(cache)
                      w == witness(At(v, i).idx, t, cache)
                      cache2 == cache \o <<w, gl>> \o Vec([k \in 1..gl |-> At(v, i + k - 1).idx], gl)
                  IN  CompactLoop(t, [v EXCEPT ![j + 1].idx = group_idx], i + gl, j + 1, cache2)

RECURSIVE ExpandLoopNoLcp(_, _, _, _, _, _, _)
\* step 4 without the move of the lcp values to the new group boundaries
ExpandLoopNoLcp(t, cache, old_cache_len, v, lcp_out, i, j) ==
    IF j = 0 THEN [v |-> v, lcp_out |-> lcp_out, i |-> i]
    ELSE LET single == At(v, j - 1).idx < Len(t) + 1 + old_cache_len
             cache_idx == At(v, j - 1).idx - Len(t) - 1
             gl == IF single THEN 1 ELSE At(cache, cache_idx + 1)
             v2 == IF single
                   THEN [v EXCEPT ![i - gl + 1] = [idx |-> At(v, j - 1).idx, h |-> NONE]]
                   ELSE Vec([k \in 1..Len(v) |->
                               IF k - 1 >= i - gl /\ k - 1 < i
                               THEN [idx |-> At(cache, cache_idx + 2 + (k - 1 - (i - gl))),
                                     h |-> U64(cache_idx)]
                               ELSE v[k]], Len(v))
         IN  ExpandLoopNoLcp(t, cache, old_cache_len, v2, lcp_out, i - gl, j - 1)

RECURSIVE ExpandLoop(_, _, _, _, _, _, _)
\* step 4: the cached groups go back into the slice, from the right
ExpandLoop(t, cache, old_cache_len, v, lcp_out, i, j) ==
    IF j = 0 THEN [v |-> v, lcp_out |-> lcp_out, i |-> i]
    ELSE LET j2 == j - 1
             single == At(v, j2).idx < Len(t) + 1 + old_cache_len
             cache_idx == At(v, j2).idx - Len(t) - 1
             gl == IF single THEN 1 ELSE At(cache, cache_idx + 1)
             i2 == i - gl
             v2 == IF single
                   THEN [v EXCEPT ![i2 + 1] = [idx |-> At(v, j2).idx, h |-> NONE]]
                   ELSE Vec([k \in 1..Len(v) |->
                               IF k - 1 >= i2 /\ k - 1 < i2 + gl
                               THEN [idx |-> At(cache, cache_idx + 2 + (k - 1 - i2)),
                                     h |-> U64(cache_idx)]
                               ELSE v[k]], Len(v))
             lcp2 == IF i2 > 0 THEN [lcp_out EXCEPT ![i2] = lcp_out[j2]] ELSE lcp_out
         IN  ExpandLoop(t, cache, old_cache_len, v2, lcp2, i2, j2)

\* one dfs call: its arguments, where it is, and its locals i, j, old_cache_len
Frame(l, exp_search, group_lcp, lo, hi) ==
    [l |-> l, exp_search |-> exp_search, group_lcp |-> group_lcp, lo |-> lo, hi |-> hi,
     phase |-> "enter", i |-> 0, j |-> 0, old_cache_len |-> 0]

Top(st) == st.stack[Len(st.stack)]
SetTop(st, f) == [st EXCEPT !.stack[Len(st.stack)] = f]

\* a call of dfs from the frame on top, and the return to its caller
Call(st, f) == [st EXCEPT !.stack = Append(st.stack, f)]
Return(st) ==
    LET rest == SubSeq(st.stack, 1, Len(st.stack) - 1)
    IN  [st EXCEPT !.stack = rest, !.pc = IF rest = <<>> THEN "done" ELSE "run"]
Panic(st) == [st EXCEPT !.pc = "panic"]

\* the slices of the frame on top
StartsOf(st) == SubSeq(st.starts, Top(st).lo + 1, Top(st).hi)
LcpOutOf(st) == SubSeq(st.lcp, Top(st).lo + 1, Top(st).hi - 1)

\* a binary search that keeps its l
NextLKept(f) == IF f.exp_search THEN f.l * 2 ELSE f.l

\* the l a group, or a slice that is one group, is searched with next
NextL(f) == IF f.exp_search THEN f.l * 2 ELSE f.l \div 2

\* dfs, more than one group: steps 1 and 2 done (c), the call on the compacted slice
DfsDefer(st, f, c) ==
    Call(SetTop([st EXCEPT !.starts = Splice(st.starts, f.lo, c.v), !.cache = c.cache],
                [f EXCEPT !.phase = "expand", !.i = f.hi - f.lo, !.j = c.j,
                          !.old_cache_len = Len(st.cache)]),
         Frame(f.l \div 2, FALSE, f.group_lcp, f.lo, f.lo + c.j))

\* dfs with its slice hashed and sorted, from the count of the groups on
DfsSorted(st, f, sorted, groups) ==
    IF groups = 1
    THEN Call(SetTop([st EXCEPT !.starts = Splice(st.starts, f.lo, sorted)],
                     [f EXCEPT !.phase = "tail"]),
              Frame(NextL(f), f.exp_search, f.group_lcp + f.l, f.lo, f.hi))
    ELSE IF groups = f.hi - f.lo
    THEN Call(SetTop([st EXCEPT !.starts = Splice(st.starts, f.lo, sorted)],
                     [f EXCEPT !.phase = "tail"]),
              Frame(f.l \div 2, FALSE, f.group_lcp, f.lo, f.hi))
    ELSE DfsDefer(st, f, CompactLoop(st.t, sorted, 0, 0, st.cache))

\* dfs with its slice hashed and sorted
DfsGrouped(st, f, sorted) == DfsSorted(st, f, sorted, num_groups(sorted))

\* dfs at l = 0 with its slice hashed and sorted
DfsChars(st, f, sorted) ==
    Return([st EXCEPT
        !.lcp = Splice(st.lcp, f.lo, Vec([k \in 1..(f.hi - f.lo - 1) |-> f.group_lcp],
                                         f.hi - f.lo - 1)),
        !.starts = Splice(st.starts, f.lo, sorted)])

\* dfs after its hash loop (hs), which panics when a read is out of the text
DfsHashed(st, f, hs, tie) ==
    IF ~hs.ok THEN Panic(st)
    ELSE IF f.l = 0 THEN DfsChars(st, f, radix_sort(hs.v, tie))
    ELSE DfsGrouped(st, f, radix_sort(hs.v, tie))

\* dfs from its entry to its first recursive call or its return
DfsEnter(st, tie) ==
    IF Top(st).hi - Top(st).lo <= 1 THEN Return(st)
    ELSE IF Top(st).l # 0 /\ ~is_power_of_two(Top(st).l) THEN Panic(st)
    ELSE DfsHashed(st, Top(st),
                   HashSlice(st.hasher, st.t, st.cache, StartsOf(st), Top(st).group_lcp,
                             IF Top(st).l = 0 THEN 1 ELSE Top(st).l),
                   tie)

\* dfs with the deferred groups left in place of their sentinels
DfsExpandKeepSentinels(st) ==
    SetTop(st, [Top(st) EXCEPT !.phase = "groups", !.i = 0])

\* dfs after the compacted slice is sorted: step 4
DfsExpand(st) ==
    LET f == Top(st)
        e == ExpandLoop(st.t, st.cache, f.old_cache_len, StartsOf(st), LcpOutOf(st), f.i, f.j)
    IN  IF e.i # 0 THEN Panic(st)
        ELSE SetTop([st EXCEPT !.starts = Splice(st.starts, f.lo, e.v),
                               !.lcp = Splice(st.lcp, f.lo, e.lcp_out)],
                    [f EXCEPT !.phase = "groups", !.i = 0])

RECURSIVE SkipNone(_, _)
SkipNone(v, i) == IF i < Len(v) /\ At(v, i).h = NONE THEN SkipNone(v, i + 1) ELSE i

\* step 5: up to the call on the next group, or the return when there is none
DfsGroups(st) ==
    LET f == Top(st)
        v == StartsOf(st)
        i == SkipNone(v, f.i)
        gl == group_len(v, i)
    IN  IF i >= Len(v) THEN Return(st)
        ELSE Call(SetTop(st, [f EXCEPT !.i = i + gl]),
                  Frame(NextL(f), f.exp_search, f.group_lcp + f.l, f.lo + i, f.lo + i + gl))

\* Ssa::new_params up to its call of dfs
new_params(t, idxs, l0, exp_search) ==
    IF idxs = <<>> THEN [pc |-> "panic"]
    ELSE LET n == Len(t)
             l == IF l0.some THEN next_power_of_two(l0.v)
                  ELSE IF ~exp_search THEN pow2(ilog2(n))
                  ELSE next_power_of_two(ilog2(Len(idxs)) \div 2)
             b == Len(idxs)
             s == IF n = 1 THEN 8 ELSE Max2(next_power_of_two(n \div ilog2(n)), 8)
         IN  [pc |-> "run", t |-> t, idxs |-> idxs, l0 |-> l0, exp_search |-> exp_search,
              hasher |-> RollingHashNew(t, s),
              starts |-> Vec([k \in 1..b |-> [idx |-> idxs[k], h |-> ModDefault]], b),
              lcp |-> Vec([k \in 1..(b - 1) |-> UsizeMax], b - 1),
              cache |-> <<>>,
              stack |-> <<Frame(l, exp_search, 0, 0, b)>>]

\* Ssa::new
SsaNewCall(idxs) == [l0 |-> Some(ilog2(Len(idxs))), exp_search |-> TRUE]

\* the struct a finished build returns
SsaOf(st) == [sa |-> Vec([k \in 1..Len(st.starts) |-> st.starts[k].idx], Len(st.starts)),
              lcp |-> st.lcp]

RECURSIVE lcp(_, _, _)
\* fn lcp: the number of leading bytes on which t[a..] and t[b..] agree
lcp(t, a, b) ==
    IF a < Len(t) /\ b < Len(t) /\ At(t, a) = At(t, b) THEN 1 + lcp(t, a + 1, b + 1) ELSE 0

\* t[a..] < t[b..], the order of byte slices: a proper prefix is smaller
SuffixLess(t, a, b) ==
    IF b + lcp(t, a, b) >= Len(t) THEN FALSE
    ELSE IF a + lcp(t, a, b) >= Len(t) THEN TRUE
    ELSE At(t, a + lcp(t, a, b)) < At(t, b + lcp(t, a, b))

\* a text, an index vector and the builds to run on them one after the other
SsaStart(t, idxs, calls) ==
    [pc |-> "init", t |-> t, idxs |-> idxs, calls |-> calls, results |-> <<>>]
SsaIdle == ssa = SsaStart(<<>>, <<>>, <<>>)

\* Ssa::new_params(t, idxs, l0, exp_search) for the first of the calls left
SsaNewParams ==
    /\ ssa.pc = "init"
    /\ ssa.calls # <<>>
    /\ LET c == Head(ssa.calls)
           st == new_params(ssa.t, ssa.idxs, c.l0, c.exp_search)
       IN  ssa' = IF st.pc = "panic"
                  THEN [ssa EXCEPT !.pc = "panic"]
                  ELSE st @@ [calls |-> ssa.calls, results |-> ssa.results]
    /\ UNCHANGED notSsa

SsaEnter ==
    /\ ssa.pc = "run"
    /\ Top(ssa).phase = "enter"
    /\ \E tie \in TiePolicies : ssa' = DfsEnter(ssa, tie)
    /\ UNCHANGED notSsa

\* the return of a dfs whose last statement was the recursive call
SsaTailReturn ==
    /\ ssa.pc = "run"
    /\ Top(ssa).phase = "tail"
    /\ ssa' = Return(ssa)
    /\ UNCHANGED notSsa

SsaExpand ==
    /\ ssa.pc = "run"
    /\ Top(ssa).phase = "expand"
    /\ ssa' = DfsExpand(ssa)
    /\ UNCHANGED notSsa

SsaGroups ==
    /\ ssa.pc = "run"
    /\ Top(ssa).phase = "groups"
    /\ ssa' = DfsGroups(ssa)
    /\ UNCHANGED notSsa

\* the build returned; the caller keeps the struct and goes on to its next build
SsaNextCall ==
    /\ ssa.pc = "done"
    /\ Len(ssa.calls) > 1
    /\ ssa' = [pc |-> "init", t |-> ssa.t, idxs |-> ssa.idxs, calls |-> Tail(ssa.calls),
               results |-> Append(ssa.results, SsaOf(ssa))]
    /\ UNCHANGED notSsa

SsaNext ==
    \/ SsaNewParams
    \/ SsaEnter
    \/ SsaTailReturn
    \/ SsaExpand
    \/ SsaGroups
    \/ SsaNextCall

RECURSIVE VerifyLoop(_, _, _, _)
\* Ssa::verify, its loop from pair i on: the assert under "if t[sa[i]..] > t[sa[i+1]..]"
\* tests the condition of the if again and cannot fail; a wrong lcp[i] aborts
VerifyLoop(t, sa, lcps, i) ==
    IF i >= Len(sa) - 1 THEN "verified"
    ELSE IF SuffixLess(t, At(sa, i + 1), At(sa, i)) /\ ~SuffixLess(t, At(sa, i + 1), At(sa, i))
    THEN "bad_order"
    ELSE IF lcp(t, At(sa, i), At(sa, i + 1)) # At(lcps, i) THEN "bad_lcp"
    ELSE VerifyLoop(t, sa, lcps, i + 1)

\* Ssa::verify(t) on the struct [sa, lcp]
verify(t, sa, lcps) ==
    IF Len(lcps) # Len(sa) - 1 THEN "bad_len" ELSE VerifyLoop(t, sa, lcps, 0)

\* a struct Ssa { sa, lcp } and a text, before verify is called on them
VerifyStart(t, sa, lcps) == [pc |-> "verify", t |-> t, sa |-> sa, lcp |-> lcps]

SsaVerify ==
    /\ ssa.pc = "verify"
    /\ ssa' = [ssa EXCEPT !.pc = verify(ssa.t, ssa.sa, ssa.lcp)]
    /\ UNCHANGED notSsa

VerifyNext == SsaVerify

(***************************************************************************)
(* ssa/minimizers: ntHash words and minimizers_daniel (robust winnowing)   *)
(*                                                                         *)
(* A hash word is the set of the positions of its one bits, bit 0 the      *)
(* least significant.                                                      *)
(***************************************************************************)
\* the word of a u64 given by its 8 bytes, least significant first
BitsOf(x) == {p \in 0..63 : (x[p \div 8 + 1] \div (2 ^ (p % 8))) % 2 = 1}

\* LUT[b'A'], LUT[b'C'], LUT[b'G'], LUT[b'T']
LutA == BitsOf(<<116, 4, 198, 149, 179, 251, 139, 60>>)    \* 0x3c8bfbb395c60474
LutC == BitsOf(<<76, 43, 160, 98, 133, 193, 147, 49>>)     \* 0x3193c18562a02b4c
LutG == BitsOf(<<36, 35, 87, 130, 208, 62, 50, 32>>)       \* 0x20323ed082572324
LutT == BitsOf(<<86, 68, 226, 75, 245, 73, 85, 41>>)       \* 0x295549f54be24456

\* the word that LUT.get_unchecked(c) finds past the 128 entries of the table, for a
\* byte c >= 128: undefined behaviour, a word that the run's memory holds there
PastLut(c) == lcr.past.word[c]

\* get: the LUT entry of the byte c
get(c) ==
    IF c >= 128 THEN PastLut(c)
    ELSE IF c = 65 THEN LutA
    ELSE IF c = 67 THEN LutC
    ELSE IF c = 71 THEN LutG
    ELSE IF c = 84 THEN LutT
    ELSE {}

\* u64::rotate_left
rotate_left(x, r) == {(p + r) % 64 : p \in x}

\* x ^ y
Xor(x, y) == (x \cup y) \ (x \cap y)

\* x <= y on u64: equal, or y has the highest bit in which they differ
WordLeq(x, y) == x = y \/ SetMax(Xor(x, y)) \in y

\* curr.rotate_left(1) ^ get(out).rotate_left(k) ^ get(in)
Roll(curr, k, out, in) ==
    Xor(Xor(rotate_left(curr, 1), rotate_left(get(out), k)), get(in))

RECURSIVE FirstKmer(_, _, _)
\* minimum, first loop: the hash of s[..k], from byte i on
FirstKmer(s, k, i) ==
    IF i >= k THEN {}
    ELSE Xor(rotate_left(get(At(s, i)), k - 1 - i), FirstKmer(s, k, i + 1))

MinimumPassAtI(prev, m, curr) ==
    Seq2(curr,
         IF WordLeq(Xor(prev, curr), m.min)
         THEN [i |-> m.i + 1, min |-> Xor(prev, curr), min_idx |-> m.i, curr |-> curr]
         ELSE [m EXCEPT !.i = m.i + 1, !.curr = curr])

\* minimum, second loop: the rolled hash curr of the kmer at m.i + 1 against the minimum
MinimumPass(prev, m, curr) ==
    Seq2(curr,
         IF WordLeq(Xor(prev, curr), m.min)
         THEN [i |-> m.i + 1, min |-> Xor(prev, curr), min_idx |-> m.i + 1, curr |-> curr]
         ELSE [m EXCEPT !.i = m.i + 1, !.curr = curr])

\* minimum, second loop: one pass, on item m.i of s[k..]
MinimumIter(s, k, prev, m) ==
    MinimumPass(prev, m, Roll(m.curr, k, At(s, m.i), At(s, k + m.i)))

RECURSIVE MinimumLoop(_, _, _, _, _)
MinimumRest(s, k, prev, m, n) == Seq2(m, MinimumLoop(s, k, prev, m, n))

\* minimum, second loop: n passes from the locals m on, by halves
MinimumLoop(s, k, prev, m, n) ==
    IF n = 0 THEN m
    ELSE IF n = 1 THEN MinimumIter(s, k, prev, m)
    ELSE MinimumRest(s, k, prev, MinimumLoop(s, k, prev, m, n \div 2), n - n \div 2)

\* minimum: the rightmost minimum kmer of the window s, as (min_idx, min, curr)
MinimumFrom(s, k, prev, curr) ==
    MinimumLoop(s, k, prev, [i |-> 0, min |-> Xor(prev, curr), min_idx |-> 0, curr |-> curr],
                Len(s) - k)

minimum(s, k, prev, offset) == MinimumFrom(s, k, prev, FirstKmer(s, k, 0))

\* the locals of minimizers_daniel_inner before its loop, and the vector v of the callback
DanielStart == [i |-> 0, min |-> {}, min_idx |-> 0, curr |-> {}, v |-> <<>>]

\* s.windows(w).count()
NumWindows(s, w) == IF Len(s) < w THEN 0 ELSE Len(s) - w + 1

\* window i when the minimum left the window: a new scan (m), and f(min_idx, min)
DanielScan(z, m) ==
    [i |-> z.i + 1, min |-> m.min, min_idx |-> z.i + m.min_idx, curr |-> m.curr,
     v |-> Append(z.v, z.i + m.min_idx)]

DanielRollAtEnd(z, w, k, prev, curr) ==
    IF WordLeq(Xor(prev, curr), z.min)
    THEN [i |-> z.i + 1, min |-> Xor(prev, curr), min_idx |-> z.i + w, curr |-> curr,
          v |-> Append(z.v, z.i + w)]
    ELSE [z EXCEPT !.i = z.i + 1, !.curr = curr]

\* window i otherwise: the hash rolled to the window's last kmer (curr)
DanielRoll(z, w, k, prev, curr) ==
    IF WordLeq(Xor(prev, curr), z.min)
    THEN [i |-> z.i + 1, min |-> Xor(prev, curr), min_idx |-> z.i + w - k, curr |-> curr,
          v |-> Append(z.v, z.i + w - k)]
    ELSE [z EXCEPT !.i = z.i + 1, !.curr = curr]

\* minimizers_daniel_inner: one pass of the loop over the windows of w bytes
DanielWindow(s, w, k, prev, z) ==
    IF z.i = 0 \/ z.i > z.min_idx
    THEN DanielScan(z, minimum(Slice(s, z.i, z.i + w), k, prev, z.i))
    ELSE DanielRoll(z, w, k, prev,
                    Roll(z.curr, k, At(s, z.i + w - 1 - k), At(s, z.i + w - 1)))

\* minimizers_daniel(s, k, w) on its own: the call, with the memory past LUT
MzStart(s, k, w, past) == [pc |-> "call", s |-> s, k |-> k, w |-> w, past |-> past]

\* the bytes that window z.i reads through get: all of the window on a new scan, else
\* win[w - 1 - k] and win[w - 1]
WindowReads(s, w, k, z) ==
    IF z.i = 0 \/ z.i > z.min_idx
    THEN {At(s, x) : x \in z.i..(z.i + w - 1)}
    ELSE {At(s, z.i + w - 1 - k), At(s, z.i + w - 1)}

\* lines 103-119: let w = w + k - 1 (leaves usize for w = k = 0), and assert!(k <= w)
MzBegin ==
    /\ lcr.pc = "call"
    /\ lcr' = [lcr EXCEPT !.pc = IF lcr.w + lcr.k - 1 >= 0 /\ lcr.k <= lcr.w + lcr.k - 1
                                 THEN "scan" ELSE "panic",
                          !.w = lcr.w + lcr.k - 1]
                @@ [w0 |-> lcr.w, z |-> DanielStart]
    /\ UNCHANGED notLcr

\* one window of minimizers_daniel_inner; a read past LUT may also fault
MzWindow ==
    /\ lcr.pc = "scan"
    /\ lcr.z.i < NumWindows(lcr.s, lcr.w)
    /\ lcr' = IF lcr.past.fault /\ \E c \in WindowReads(lcr.s, lcr.w, lcr.k, lcr.z) : c >= 128
              THEN [lcr EXCEPT !.pc = "fault"]
              ELSE [lcr EXCEPT !.z = DanielWindow(lcr.s, lcr.w, lcr.k, {}, lcr.z)]
    /\ UNCHANGED notLcr

\* lines 108: the vector v is returned
MzReturn ==
    /\ lcr.pc = "scan"
    /\ lcr.z.i = NumWindows(lcr.s, lcr.w)
    /\ lcr' = [pc |-> "returned", s |-> lcr.s, k |-> lcr.k, w |-> lcr.w0, past |-> lcr.past,
               out |-> lcr.z.v]
    /\ UNCHANGED notLcr

MzNext == MzBegin \/ MzWindow \/ MzReturn

RECURSIVE DanielLoop(_, _, _, _)
\* minimizers_daniel_inner: the loop over the windows of w bytes, from window z.i on
DanielLoop(s, w, k, z) ==
    IF z.i >= NumWindows(s, w) THEN z
    ELSE DanielLoop(s, w, k, Seq2(z, DanielWindow(s, w, k, {}, z)))

\* minimizers_daniel(s, k, w) for w >= 1: the vector v of the callback
minimizers_daniel(s, k, w) == DanielLoop(s, w + k - 1, k, DanielStart).v

\* the hashes NtHashForwardIterator::new(t, k) yields, one for each kmer of t: taken
\* to be the kmer hashes that minimum computes
NtHashes(t, k) ==
    Vec([i \in 1..(Len(t) - k + 1) |-> FirstKmer(Slice(t, i - 1, i - 1 + k), k, 0)],
        Len(t) - k + 1)

RECURSIVE NthashDropWorseStrict(_, _)
NthashDropWorseStrict(stack, h) ==
    IF stack # <<>> /\ WordLeq(h, stack[Len(stack)].h) /\ h # stack[Len(stack)].h
    THEN NthashDropWorseStrict(SubSeq(stack, 1, Len(stack) - 1), h)
    ELSE stack

RECURSIVE NthashDropWorse(_, _)
\* minimizers_nthash, step 1: pop_back while h <= the hash at the back
NthashDropWorse(stack, h) ==
    IF stack # <<>> /\ WordLeq(h, stack[Len(stack)].h)
    THEN NthashDropWorse(SubSeq(stack, 1, Len(stack) - 1), h)
    ELSE stack

\* minimizers_nthash: one pass of the loop, for the kmer d.i with the hash h
NthashStep(d, h, w) ==
    LET stack == Append(NthashDropWorse(d.stack, h), [i |-> d.i, h |-> h])
        i2 == Head(stack).i
        fresh == d.minimizers = <<>> \/ d.minimizers[Len(d.minimizers)] # i2
    IN  IF ~(d.i <= i2 + w) THEN [d EXCEPT !.ok = FALSE]
        ELSE [ok |-> TRUE, i |-> d.i + 1,
              minimizers |-> IF d.i >= w - 1 /\ fresh THEN Append(d.minimizers, i2)
                             ELSE d.minimizers,
              stack |-> IF d.i = i2 + w - 1 THEN Tail(stack) ELSE stack]

RECURSIVE NthashLoop(_, _, _)
NthashLoop(hs, w, d) ==
    IF ~d.ok \/ d.i >= Len(hs) THEN d
    ELSE NthashLoop(hs, w, Seq2(d, NthashStep(d, At(hs, d.i), w)))

\* minimizers_nthash(t, k, w) for w >= 1 and 1 <= k <= n
minimizers_nthash(t, k, w) ==
    NthashLoop(NtHashes(t, k), w, [ok |-> TRUE, i |-> 0, minimizers |-> <<>>, stack |-> <<>>])

\* test::minimizers_nthash_same: the closure on one text, k and w
SameStart(t, k, w) == [pc |-> "same", s |-> t, k |-> k, w |-> w]

NthashSame ==
    /\ lcr.pc = "same"
    /\ LET ms1 == minimizers_nthash(lcr.s, lcr.k, lcr.w)
           ms2 == minimizers_daniel(lcr.s, lcr.k, lcr.w)
       IN  lcr' = IF ~ms1.ok THEN [lcr EXCEPT !.pc = "panic"]
                  ELSE [lcr EXCEPT !.pc = IF ms1.minimizers = ms2 THEN "equal" ELSE "panic"]
                           @@ [ms1 |-> ms1.minimizers, ms2 |-> ms2]
    /\ UNCHANGED notLcr

SameNext == NthashSame

(***************************************************************************)
(* ssa/lcr: the driver                                                     *)
(***************************************************************************)
LcrStart(t, l) == [pc |-> "init", t |-> t, l |-> l]

LcrIdle == lcr = LcrStart(<<>>, 0)

\* Ssa::new(t, idxs) up to its call of dfs; idxs.len().ilog2() panics on an empty vector
SsaNew(t, idxs) ==
    IF idxs = <<>> THEN [pc |-> "panic"]
    ELSE new_params(t, idxs, SsaNewCall(idxs).l0, SsaNewCall(idxs).exp_search)

\* dfs from where the call on top of the stack is to its next call or return
DfsStep(st, tie) ==
    IF Top(st).phase = "enter" THEN DfsEnter(st, tie)
    ELSE IF Top(st).phase = "tail" THEN Return(st)
    ELSE IF Top(st).phase = "expand" THEN DfsExpand(st)
    ELSE DfsGroups(st)

\* the driver with its callee Ssa::new in state b
LcrIn(s, b) == IF b.pc = "panic" THEN [s EXCEPT !.pc = "panic"] ELSE [s EXCEPT !.b = b]

\* i -> t.len() - i on every item
Mirror(v, n) == Vec([x \in 1..Len(v) |-> n - v[x]], Len(v))

\* a Tree from the arrays of an Ssa, its lcp end-padded with a 0
TreeOf(sa, lcps) == [sa |-> sa, lcp |-> Append(lcps, 0)]

\* lines 12-19: k, w, and minimizers_daniel up to the loop of its inner function
\* (t is the caller's buffer, t0 its contents at the call);
\* l - k - 1 or w + k - 1 leaves usize for l < 2, and assert!(k <= w) fails for l = 2
LcrBegin ==
    /\ lcr.pc = "init"
    /\ LET k == Min2(lcr.l \div 2, 64)
           w == lcr.l - k - 1
       IN  lcr' = [pc |-> IF w >= 0 /\ w + k - 1 >= 0 /\ k <= w + k - 1
                          THEN "windows" ELSE "panic",
                   t |-> lcr.t, t0 |-> lcr.t, l |-> lcr.l, k |-> k, w |-> w,
                   z |-> DanielStart]
    /\ UNCHANGED notLcr

\* one window of minimizers_daniel_inner
LcrWindow ==
    /\ lcr.pc = "windows"
    /\ lcr.z.i < NumWindows(lcr.t, lcr.w + lcr.k - 1)
    /\ lcr' = [lcr EXCEPT !.z = DanielWindow(lcr.t, lcr.w + lcr.k - 1, lcr.k, {}, lcr.z)]
    /\ UNCHANGED notLcr

\* line 29: the minimizers are found, Ssa::new(t, &minimizers) starts
LcrSsa1 ==
    /\ lcr.pc = "windows"
    /\ lcr.z.i = NumWindows(lcr.t, lcr.w + lcr.k - 1)
    /\ lcr' = LcrIn([pc |-> "ssa1", t |-> lcr.t, t0 |-> lcr.t0, l |-> lcr.l, k |-> lcr.k,
                     w |-> lcr.w, minimizers |-> lcr.z.v, b |-> [pc |-> "init"]],
                    SsaNew(lcr.t, lcr.z.v))
    /\ UNCHANGED notLcr

\* a step of the dfs of the build under way
LcrDfs ==
    /\ lcr.pc \in {"ssa1", "ssa2"}
    /\ lcr.b.pc = "run"
    /\ \E tie \in TiePolicies : lcr' = LcrIn(lcr, DfsStep(lcr.b, tie))
    /\ UNCHANGED notLcr

\* lines 37-41: the first build returned; the mirrored minimizers, the text reversed
\* in place and Ssa::new on them
LcrSsa2 ==
    /\ lcr.pc = "ssa1"
    /\ lcr.b.pc = "done"
    /\ lcr' = LcrIn([pc |-> "ssa2", t |-> Reverse(lcr.t), t0 |-> lcr.t0, l |-> lcr.l,
                     k |-> lcr.k, w |-> lcr.w,
                     minimizers |-> lcr.minimizers, ssa |-> SsaOf(lcr.b),
                     b |-> [pc |-> "init"]],
                    SsaNew(Reverse(lcr.t), Mirror(lcr.minimizers, Len(lcr.t))))
    /\ UNCHANGED notLcr

LcrTreesNoRestore ==
    /\ lcr.pc = "ssa2"
    /\ lcr.b.pc = "done"
    /\ lcr' = [pc |-> "mcw", t |-> lcr.t, t0 |-> lcr.t0, l |-> lcr.l, k |-> lcr.k,
               w |-> lcr.w, minimizers |-> lcr.minimizers,
               m |-> McwBegin(McwStart(
                        TreeOf(lcr.ssa.sa, lcr.ssa.lcp),
                        TreeOf(Mirror(SsaOf(lcr.b).sa, Len(lcr.t)), SsaOf(lcr.b).lcp)))]
    /\ UNCHANGED notLcr

\* lines 44-68: the second build returned; the text reversed back, its sa mirrored
\* back, the two trees, and max_common_weight up to its loop
LcrTrees ==
    /\ lcr.pc = "ssa2"
    /\ lcr.b.pc = "done"
    /\ lcr' = [pc |-> "mcw", t |-> Reverse(lcr.t), t0 |-> lcr.t0, l |-> lcr.l, k |-> lcr.k,
               w |-> lcr.w, minimizers |-> lcr.minimizers,
               m |-> McwBegin(McwStart(
                        TreeOf(lcr.ssa.sa, lcr.ssa.lcp),
                        TreeOf(Mirror(SsaOf(lcr.b).sa, Len(lcr.t)), SsaOf(lcr.b).lcp)))]
    /\ UNCHANGED notLcr

\* a step of max_common_weight
LcrMcw ==
    /\ lcr.pc = "mcw"
    /\ lcr.m.pc = "while"
    /\ lcr' = [lcr EXCEPT !.m = McwStep(lcr.m)]
    /\ UNCHANGED notLcr

\* line 71: the weight is returned (an assert of max_common_weight that fails panics)
LcrReturn ==
    /\ lcr.pc = "mcw"
    /\ lcr.m.pc \in {"done", "abort"}
    /\ lcr' = [pc |-> IF lcr.m.pc = "done" THEN "done" ELSE "panic",
               t |-> lcr.t, t0 |-> lcr.t0, l |-> lcr.l, k |-> lcr.k, w |-> lcr.w,
               minimizers |-> lcr.minimizers, out |-> lcr.m.ans[1]]
    /\ UNCHANGED notLcr

LcrNext ==
    \/ LcrBegin
    \/ LcrWindow
    \/ LcrSsa1
    \/ LcrDfs
    \/ LcrSsa2
    \/ LcrTrees
    \/ LcrMcw
    \/ LcrReturn

(***************************************************************************)
(* Specifications: one per component, each drawing its inputs in Init      *)
(***************************************************************************)
Idle(c) ==
    /\ c # "rmq" => RmqIdle
    /\ c # "mcw" => McwIdle
    /\ c # "rh" => RhIdle
    /\ c # "ssa" => SsaIdle
    /\ c # "lcr" => LcrIdle

RmqInit ==
    /\ \E a \in RmqArrays : RmqStart(a)
    /\ Idle("rmq")

SpecRmq == RmqInit /\ [][RmqNext]_vars

\* the permutations of 0..n-1, as vectors
Perms(n) == {s \in SeqsOf(0..(n - 1), n) : \A x, y \in 1..n : s[x] = s[y] => x = y}

\* the lcp vectors of n leaves: end-padded with a 0
LcpVecs(n) == {Append(s, 0) : s \in SeqsOf(0..McwMaxLcp, n - 1)}

\* the leaf orders tried for tree a: sorted, reversed, and rotated by one
McwSaA(n) ==
    {[x \in 1..n |-> x - 1], [x \in 1..n |-> n - x], [x \in 1..n |-> x % n]}

McwInit ==
    /\ \E n \in 1..McwMaxN :
        \E asa \in McwSaA(n), bsa \in Perms(n), alcp \in LcpVecs(n), blcp \in LcpVecs(n) :
            mcw = McwStart([sa |-> asa, lcp |-> alcp], [sa |-> bsa, lcp |-> blcp])
    /\ Idle("mcw")

SpecMcw == McwInit /\ [][McwNext]_vars

\* bounds of the trees given to max_common_weight without regard to its asserts:
\* vectors of up to TreeMaxN items, values up to TreeMaxVal
TreeMaxN == 2
TreeMaxVal == 1

\* leaf vectors: 0..n-1 in some order, or a single leaf x
TreeSas == UNION {Perms(n) : n \in 0..TreeMaxN} \cup {<<x>> : x \in 0..TreeMaxVal}

\* lcp vectors of any length, with any last entry
TreeLcps == UNION {SeqsOf(0..TreeMaxVal, n) : n \in 0..TreeMaxN}

TreesInit ==
    /\ \E asa \in TreeSas, bsa \in TreeSas, alcp \in TreeLcps, blcp \in TreeLcps :
         mcw = McwStart([sa |-> asa, lcp |-> alcp], [sa |-> bsa, lcp |-> blcp])
    /\ Idle("mcw")

SpecTrees == TreesInit /\ [][McwNext]_vars

RhInit ==
    /\ \E seed \in 0..RhSeeds, n \in RhLens, s \in RhBlockSizes : rh = RhStart(RhText(seed, n), s)
    /\ Idle("rh")

SpecHash == RhInit /\ [][RhNext]_vars

\* bounds of the texts of chunked_linear: lengths 0..LinMaxLen, seeds 0..LinSeeds
LinMaxLen == 17
LinSeeds == 5

LinInit ==
    /\ \E seed \in 0..LinSeeds, n \in 0..LinMaxLen : rh = LinStart(RhText(seed, n))
    /\ Idle("rh")

SpecLinear == LinInit /\ [][LinNext]_vars

\* bounds of the builds: texts over SsaAlphabet up to SsaMaxLen bytes, l0 up to SsaMaxL0
SsaMaxLen == 4
SsaMaxL0 == 2
SsaAlphabet == {97, 98}

RECURSIVE Increasing(_, _)
\* the members of the set S of numbers from x on, in increasing order
Increasing(S, x) ==
    IF S = {} THEN <<>>
    ELSE IF x \in S THEN <<x>> \o Increasing(S \ {x}, x + 1)
    ELSE Increasing(S, x + 1)

\* the index vectors over a text of n bytes: distinct positions, increasing or decreasing
SsaIdxs(n) ==
    LET up == {Increasing(S, 0) : S \in (SUBSET (0..(n - 1))) \ {{}}}
    IN  up \cup {Reverse(v) : v \in up}

\* the three builds of test::small_ssa and test::random_ssa
SsaTestCalls ==
    << [l0 |-> None, exp_search |-> FALSE],
       [l0 |-> Some(1), exp_search |-> TRUE],
       [l0 |-> None, exp_search |-> TRUE] >>

\* the builds run on one input: the three of the tests in a row, Ssa::new, or
\* one new_params with a given l0
SsaCalls(idxs) ==
    {SsaTestCalls, <<SsaNewCall(idxs)>>}
        \cup {<<[l0 |-> Some(m), exp_search |-> e]>> : m \in 0..SsaMaxL0, e \in BOOLEAN}

abracadabra == <<97, 98, 114, 97, 99, 97, 100, 97, 98, 114, 97>>

\* a text of four blocks of 8 bytes: the bytes of P as a u64, eight zero bytes, eight
\* 'a', eight 'b'; the first two blocks are the little-endian numbers P and 0
PThenZero ==
    P \o U64(0) \o <<97, 97, 97, 97, 97, 97, 97, 97>> \o <<98, 98, 98, 98, 98, 98, 98, 98>>

\* a text of three samples of 12 bytes at 0, 12 and 24: the bytes of P as a u64 and
\* "aaaa", eight zero bytes and "aaaa", eight zero bytes and "bbbb"
PZeroZero ==
    P \o <<97, 97, 97, 97>> \o U64(0) \o <<97, 97, 97, 97>> \o U64(0) \o <<98, 98, 98, 98>>

SsaInit ==
    /\ \/ \E n \in 1..SsaMaxLen : \E t \in SeqsOf(SsaAlphabet, n), idxs \in SsaIdxs(n) :
            \E calls \in SsaCalls(idxs) : ssa = SsaStart(t, idxs, calls)
       \/ \E calls \in SsaCalls(Increasing(0..10, 0)) :
            ssa = SsaStart(abracadabra, Increasing(0..10, 0), calls)
       \/ ssa = SsaStart(PThenZero, <<0, 8>>, <<[l0 |-> Some(8), exp_search |-> TRUE]>>)
       \/ ssa = SsaStart(PZeroZero, <<0, 12, 24>>, <<[l0 |-> Some(8), exp_search |-> FALSE]>>)
    /\ Idle("ssa")

SpecSsa == SsaInit /\ [][SsaNext]_vars

\* bounds of the structs verified: texts over SsaAlphabet of 1 to VerMaxLen bytes, an sa
\* of 1 to VerMaxSa positions of the text, an lcp of |sa| - 1 or |sa| values up to n
VerMaxLen == 3
VerMaxSa == 2

VerifyInit ==
    /\ \E n \in 1..VerMaxLen, b \in 1..VerMaxSa : \E c \in {b - 1, b} :
         \E t \in SeqsOf(SsaAlphabet, n), sa \in SeqsOf(0..(n - 1), b), lcps \in SeqsOf(0..n, c) :
            ssa = VerifyStart(t, sa, lcps)
    /\ Idle("ssa")

SpecVerify == VerifyInit /\ [][VerifyNext]_vars

\* bounds of the driver's inputs: texts over LcrAlphabet up to LcrMaxLen bytes, L up to LcrMaxL
LcrMaxLen == 5
LcrMaxL == 5
LcrAlphabet == {65, 66, 67}

\* the text of test::small, and the secret of test::large twice with empty fillers
ABRACADABRAXYZPT == <<65, 66, 82, 65, 67, 65, 68, 65, 66, 82, 65, 88, 89, 90, 80, 84>>
RagnarWasHere == <<82, 97, 103, 110, 97, 114, 87, 97, 115, 72, 101, 114, 101>>

LcrInit ==
    /\ \/ \E n \in 0..LcrMaxLen, l \in 3..LcrMaxL : \E t \in SeqsOf(LcrAlphabet, n) :
            lcr = LcrStart(t, l)
       \/ lcr = LcrStart(ABRACADABRAXYZPT, 4)
       \/ lcr = LcrStart(RagnarWasHere \o RagnarWasHere, 13)
    /\ Idle("lcr")

SpecLcr == LcrInit /\ [][LcrNext]_vars

\* bounds of the calls of minimizers_daniel: texts over MzAlphabet up to MzMaxLen bytes,
\* k up to MzMaxK, w up to MzMaxW
MzMaxLen == 5
MzMaxK == 3
MzMaxW == 3
MzAlphabet == {65, 67, 200}

\* what a read past LUT can find: a zero word, the word of 'A', a word of all ones
PastWords == {{}, LutA, 0..63}
Pasts == [fault : BOOLEAN, word : [{c \in MzAlphabet : c >= 128} -> PastWords]]

MzInit ==
    /\ \E n \in 0..MzMaxLen, k \in 1..MzMaxK, w \in 1..MzMaxW, past \in Pasts :
         \E s \in SeqsOf(MzAlphabet, n) : lcr = MzStart(s, k, w, past)
    /\ Idle("lcr")

SpecMz == MzInit /\ [][MzNext]_vars

\* bounds of the calls of the closure of minimizers_nthash_same: texts over b"ACTG" of
\* 1 to SameMaxLen bytes, k up to the length of the text, w up to SameMaxW
SameMaxLen == 4
SameMaxW == 3
NtAlphabet == {65, 67, 71, 84}

SameInit ==
    /\ \E n \in 1..SameMaxLen, w \in 1..SameMaxW : \E k \in 1..n, t \in SeqsOf(NtAlphabet, n) :
         lcr = SameStart(t, k, w)
    /\ Idle("lcr")

SpecSame == SameInit /\ [][SameNext]_vars


(***************************************************************************)
(* C9: for every non-empty array a and all 0 <= l < r <= n, query(l..r)    *)
(* returns min(a[l..r)), for MaskRmq (ranges shorter than, equal to and    *)
(* longer than W, and ranges crossing block boundaries) and SparseTable.   *)
(***************************************************************************)
C9_QueryIsMin ==
    rmq_pc = "queried" =>
        /\ rmq_out.mask = SliceMin(rmq_a, rmq_range[1], rmq_range[2])
        /\ rmq_out.sparse = SliceMin(rmq_a, rmq_range[1], rmq_range[2])

\* a range longer than W that spans a whole block, whose minimum lies in that block only
C9_Witness ==
    /\ rmq_pc = "queried"
    /\ rmq_range[2] - rmq_range[1] > 2 * W
    /\ rmq_range[1] = 1
    /\ rmq_out.mask = 0
    /\ At(rmq_a, W + 1) = 0

(***************************************************************************)
(* C3: for trees a, b over the same nodes with zero-terminated lcp vectors *)
(* of length n, the weight max_common_weight returns is the maximum over   *)
(* all pairs i < j of min(a.lcp[i..j)) + min(b.lcp[lo..hi)), lo < hi the   *)
(* positions in b.sa of a.sa[i] and a.sa[j]; 0 when there is no pair.      *)
(***************************************************************************)
C3_WeightIsNaiveMax ==
    mcw.pc = "done" => mcw.ans[1] = max_common_weight_naive(mcw.a, mcw.b)

\* a finished sweep over three leaves in different orders with a positive best weight
C3_Witness ==
    /\ mcw.pc = "done"
    /\ Len(mcw.a.sa) = 3
    /\ mcw.a.sa # mcw.b.sa
    /\ mcw.ans[1] >= 3

\* LCP_X(u, v): the minimum of x.lcp between the positions of nodes u and v in x.sa
TreeLcp(x, u, v) ==
    LET pu == b_inv(x, u)
        pv == b_inv(x, v)
    IN  SliceMin(x.lcp, Min2(pu, pv), Max2(pu, pv))

IsNode(x, u) == \E y \in 1..Len(x.sa) : x.sa[y] = u

(***************************************************************************)
(* C4: whenever max_common_weight returns (weight, (u, v)) with weight > 0,*)
(* u and v are nodes (elements of a.sa and b.sa) and                       *)
(* LCP_a(u, v) + LCP_b(u, v) = weight.                                     *)
(***************************************************************************)
C4_PairAttainsWeight ==
    (mcw.pc = "done" /\ mcw.ans[1] > 0) =>
        /\ IsNode(mcw.a, mcw.ans[2]) /\ IsNode(mcw.a, mcw.ans[3])
        /\ mcw.ans[2] # mcw.ans[3]
        /\ TreeLcp(mcw.a, mcw.ans[2], mcw.ans[3]) + TreeLcp(mcw.b, mcw.ans[2], mcw.ans[3])
             = mcw.ans[1]

(***************************************************************************)
(* C5: for every text, every non-empty vector I of distinct positions and  *)
(* every parameterization (l0, exp_search), the SA a build returns is a    *)
(* permutation of I: it has the length of I and exactly the elements of I  *)
(* (no sentinel of a deferred group, no duplicate).                        *)
(***************************************************************************)
C5_SaIsPermutation ==
    ssa.pc = "done" =>
        /\ Len(SsaOf(ssa).sa) = Len(ssa.idxs)
        /\ {SsaOf(ssa).sa[k] : k \in 1..Len(ssa.idxs)} = {ssa.idxs[k] : k \in 1..Len(ssa.idxs)}

\* a returned build that deferred a group of two and expanded it again
C5_Witness ==
    /\ ssa.pc = "done"
    /\ Len(ssa.idxs) >= 3
    /\ Len(ssa.cache) >= 4
    /\ {SsaOf(ssa).sa[k] : k \in 1..Len(ssa.idxs)} = {ssa.idxs[k] : k \in 1..Len(ssa.idxs)}

(***************************************************************************)
(* C6: for every text and every non-empty vector I of distinct positions,  *)
(* Ssa::new and Ssa::new_params return an SA with T[SA[i]..] < T[SA[i+1]..]*)
(* for every i; for T = "abracadabra" and I = {0..10} the build returns    *)
(* SA = [10,7,0,3,5,8,1,4,6,9,2].                                          *)
(***************************************************************************)
C6_SaIsSorted ==
    /\ ssa.pc = "done" =>
            \A k \in 1..(Len(ssa.idxs) - 1) :
                SuffixLess(ssa.t, SsaOf(ssa).sa[k], SsaOf(ssa).sa[k + 1])
    /\ ssa.t = abracadabra =>
            /\ ssa.pc # "panic"
            /\ ssa.pc = "done" => SsaOf(ssa).sa = <<10, 7, 0, 3, 5, 8, 1, 4, 6, 9, 2>>

LcpIsCommonPrefix(st) ==
    /\ Len(st.lcp) = Len(st.idxs) - 1
    /\ \A k \in 1..(Len(st.idxs) - 1) :
            st.lcp[k] = lcp(st.t, SsaOf(st).sa[k], SsaOf(st).sa[k + 1])

(***************************************************************************)
(* C7: for every text and every non-empty vector I of distinct             *)
(* positions, the LCP array Ssa::new_params returns has length |I| - 1 and *)
(* LCP[i] is the number of leading bytes on which T[SA[i]..] and           *)
(* T[SA[i+1]..] agree (so no entry keeps the usize::MAX placeholder).      *)
(***************************************************************************)
C7_LcpAnyParams == ssa.pc = "done" => LcpIsCommonPrefix(ssa)

(***************************************************************************)
(* C8: for every text and non-empty vector I of distinct positions, the    *)
(* three builds new_params(T, I, None, false), new_params(T, I, Some(1),   *)
(* true) and new_params(T, I, None, true) all return, and return the same  *)
(* SA.                                                                     *)
(***************************************************************************)
C8_BuildsAgree ==
    Len(ssa.calls) + Len(ssa.results) = Len(SsaTestCalls) =>
        /\ ssa.pc # "panic"
        /\ ssa.pc = "done" => \A k \in 1..Len(ssa.results) : ssa.results[k].sa = SsaOf(ssa).sa

(***************************************************************************)
(* C10: for every text, every block size s (a power of two >= 8) and all   *)
(* 0 <= i <= j <= n, RollingHash::new(T, s).query(i..j) returns            *)
(* RollingHash::linear(T[i..j)), on the linear fallback (j - i <= 2s) and  *)
(* on the prefix-table path (j - i > 2s).                                  *)
(***************************************************************************)
C10_QueryIsLinear ==
    rh.pc = "queried" =>
        /\ rh.out.ok
        /\ rh.out.h = linear(Slice(rh.hasher.text, rh.range[1], rh.range[2]))

\* a query on the prefix-table path, off the block boundaries, with a non-zero hash
C10_Witness ==
    /\ rh.pc = "queried"
    /\ rh.range[2] - rh.range[1] > 2 * rh.hasher.s
    /\ rh.range[1] % rh.hasher.s # 0
    /\ rh.range[2] % rh.hasher.s # 0
    /\ rh.out.ok
    /\ rh.out.h # U64(0)


\* the pairs x < y of members of S
Pairs(S) == {xy \in S \X S : xy[1] < xy[2]}

\* the length of the longest byte string that occurs at two distinct positions of t
MaxRepeat(t) ==
    SetMax({0} \cup {lcp(t, pq[1], pq[2]) : pq \in Pairs(0..(Len(t) - 1))})

\* the number of d = 0, 1, ... with t[p-1-d] = t[q-1-d]
LcpReverse(t, p, q) == lcp(Reverse(t), Len(t) - p, Len(t) - q)

\* the largest LCP_forward + LCP_reverse over the pairs of distinct positions in ms
MaxWeight(t, ms) ==
    SetMax({lcp(t, ms[xy[1]], ms[xy[2]]) + LcpReverse(t, ms[xy[1]], ms[xy[2]]) :
            xy \in Pairs(1..Len(ms))})

LcrEnded == lcr.pc \in {"done", "panic"}

\* C1: a byte string of m >= L bytes at two distinct positions of T makes lcr(T, L)
\* return at least m
C1_RepeatIsFound ==
    (LcrEnded /\ MaxRepeat(lcr.t0) >= lcr.l)
        => lcr.pc = "done" /\ lcr.out >= MaxRepeat(lcr.t0)

\* C2: lcr(T, L) returns the largest LCP_forward(p, q) + LCP_reverse(p, q) over the
\* pairs of distinct minimizer positions p, q, and lcr("ABRACADABRAXYZPT", 4) = 4
C2_LcrIsMaxWeight ==
    /\ (LcrEnded /\ "minimizers" \in DOMAIN lcr /\ Len(lcr.minimizers) >= 2)
        => lcr.pc = "done" /\ lcr.out = MaxWeight(lcr.t0, lcr.minimizers)
    /\ (LcrEnded /\ lcr.t0 = ABRACADABRAXYZPT /\ lcr.l = 4)
        => lcr.pc = "done" /\ lcr.out = 4

\* the last roll_add of linear(t), on the first chunk, adds past 2^64
LastRollOverflows(t) ==
    /\ Len(t) >= 8
    /\ overflowing_add(wrapping_mul(linear(Slice(t, 8, Len(t))), U64(R)), Slice(t, 0, 8)).overflow

\* C11: for every byte string t, the chunked RollingHash::linear(t) equals the
\* byte-at-a-time linear_baseline(t), also when a u64 addition overflows
C11_LinearIsBaseline == rh.pc = "hashed" => rh.h2 = rh.h1

\* a text of more than two chunks and a remainder whose last roll_add overflows
C11_Witness ==
    /\ rh.pc = "hashed"
    /\ Len(rh.text) > 16
    /\ LastRollOverflows(rh.text)
    /\ rh.h2 = rh.h1
    /\ rh.h1 # U64(0)

\* C12: the vector M returned by minimizers_daniel(T, k, w), k <= n, is strictly
\* increasing, lies in [0, n - k + 1), and has no gap M[i+1] - M[i] above w
C12_MinimizersOrdered ==
    (lcr.pc = "returned" /\ lcr.k <= Len(lcr.s)) =>
        /\ \A x \in 1..Len(lcr.out) : lcr.out[x] \in 0..(Len(lcr.s) - lcr.k)
        /\ \A x \in 1..(Len(lcr.out) - 1) :
              /\ lcr.out[x] < lcr.out[x + 1]
              /\ lcr.out[x + 1] - lcr.out[x] <= lcr.w

\* a call with k, w >= 2 on a text with a byte past the table that returns three
\* positions or more, the last kmer among them, two of them w apart
C12_Witness ==
    /\ lcr.pc = "returned"
    /\ lcr.k >= 2 /\ lcr.w >= 2
    /\ \E x \in 1..Len(lcr.s) : lcr.s[x] >= 128
    /\ Len(lcr.out) >= 3
    /\ lcr.out[Len(lcr.out)] = Len(lcr.s) - lcr.k
    /\ \E x \in 1..(Len(lcr.out) - 1) : lcr.out[x + 1] - lcr.out[x] = lcr.w

\* the hash of the kmer of s at j, as the first loop of minimum computes it
KmerHash(s, j, k) == FirstKmer(Slice(s, j, j + k), k, 0)

\* the kmer at p has a minimum hash among the w kmers at i..i+w-1
IsWindowMin(s, k, w, i, p) ==
    /\ p \in i..(i + w - 1)
    /\ \A j \in i..(i + w - 1) : WordLeq(KmerHash(s, p, k), KmerHash(s, j, k))

\* C13: for n >= k+w-1 and every window start i in 0..=n-(k+w-1), the vector returned
\* by minimizers_daniel(T, k, w) holds the position of a minimum-hash kmer among the
\* w kmers at i..i+w-1
C13_WindowMinIsIn ==
    (lcr.pc = "returned" /\ Len(lcr.s) >= lcr.k + lcr.w - 1) =>
        \A i \in 0..(Len(lcr.s) - (lcr.k + lcr.w - 1)) :
            \E x \in 1..Len(lcr.out) : IsWindowMin(lcr.s, lcr.k, lcr.w, i, lcr.out[x])

\* a call with three windows or more of w >= 2 kmers that returns fewer positions than
\* there are kmers, with two kmers of different hashes
C13_Witness ==
    /\ lcr.pc = "returned"
    /\ lcr.w >= 2 /\ lcr.k >= 2
    /\ Len(lcr.s) >= lcr.k + lcr.w + 1
    /\ Len(lcr.out) >= 2
    /\ Len(lcr.out) < Len(lcr.s) - lcr.k + 1
    /\ KmerHash(lcr.s, 0, lcr.k) # KmerHash(lcr.s, 1, lcr.k)
    /\ C13_WindowMinIsIn

McwEnded == mcw.pc \in {"done", "abort"}

EmptyTree == [sa |-> <<>>, lcp |-> <<>>]

\* C14: max_common_weight on two empty trees, or on two trees of the single leaf x with
\* lcp = [0], returns (0, (usize::MAX, usize::MAX)) without aborting
C14_EdgeTreesReturnZero ==
    (/\ McwEnded
     /\ \/ mcw.a = EmptyTree /\ mcw.b = EmptyTree
        \/ \E x \in 0..TreeMaxVal : mcw.a = [sa |-> <<x>>, lcp |-> <<0>>] /\ mcw.b = mcw.a)
        => mcw.pc = "done" /\ mcw.ans = <<0, UsizeMax, UsizeMax>>

\* a tree that one of the five asserts of max_common_weight rejects
AssertFails(a, b) ==
    \/ Len(a.lcp) # Len(a.sa)
    \/ Len(b.lcp) # Len(b.sa)
    \/ Len(a.sa) # Len(b.sa)
    \/ Len(a.lcp) > 0 /\ a.lcp[Len(a.lcp)] # 0
    \/ Len(b.lcp) > 0 /\ b.lcp[Len(b.lcp)] # 0

\* C15: max_common_weight aborts before it weighs any pair whenever a.lcp and a.sa, or
\* b.lcp and b.sa, or a.sa and b.sa differ in length, or a.lcp or b.lcp does not end in 0
C15_AssertsAbort ==
    (mcw.pc # "init" /\ AssertFails(mcw.a, mcw.b)) =>
        mcw.pc = "abort" /\ mcw.ans = <<0, UsizeMax, UsizeMax>> /\ mcw.b_idx = <<>>

\* an aborted call whose trees have equal lengths and the same leaves, and only b.lcp
\* does not end in 0
C15_Witness ==
    /\ mcw.pc = "abort"
    /\ Len(mcw.a.sa) = 2 /\ Len(mcw.b.sa) = 2 /\ Len(mcw.a.lcp) = 2 /\ Len(mcw.b.lcp) = 2
    /\ mcw.a.lcp[2] = 0 /\ mcw.b.lcp[2] # 0
    /\ \A x \in 1..2 : IsNode(mcw.b, mcw.a.sa[x])

\* t[a..a+l) and t[b..b+l) are different byte strings with equal hashes
Collide(t, a, b, l) ==
    /\ a + l <= Len(t) /\ b + l <= Len(t)
    /\ Slice(t, a, a + l) # Slice(t, b, b + l)
    /\ linear(Slice(t, a, a + l)) = linear(Slice(t, b, b + l))

\* two of the suffixes of the build start with colliding strings of a probed length
HasCollision(st) ==
    \E x, y \in 1..Len(st.idxs) : \E e \in 0..3 : Collide(st.t, st.idxs[x], st.idxs[y], pow2(e))

\* C16: the SA and LCP arrays of a build are right also when two different byte strings
\* of the same length l >= 1 have equal hashes: the collision changes neither the SA
\* order nor an LCP value
C16_CollisionsHarmless ==
    (ssa.pc = "done" /\ ssa.exp_search /\ HasCollision(ssa)) =>
        /\ \A k \in 1..(Len(ssa.idxs) - 1) :
              SuffixLess(ssa.t, SsaOf(ssa).sa[k], SsaOf(ssa).sa[k + 1])
        /\ LcpIsCommonPrefix(ssa)

\* the ends of the ranges that the dfs call on top of the stack gives to
\* RollingHash::query at its entry: witness(idx) + group_lcp + l, or + 1 for l = 0
ReadEnds(st) ==
    IF Top(st).hi - Top(st).lo <= 1 THEN {}
    ELSE {witness(StartsOf(st)[k].idx, st.t, st.cache) + Top(st).group_lcp
            + (IF Top(st).l = 0 THEN 1 ELSE Top(st).l) : k \in 1..Len(StartsOf(st))}

\* one of the two builds of lcr is at the entry of a dfs call
LcrAtDfsEntry ==
    /\ lcr.pc \in {"ssa1", "ssa2"}
    /\ lcr.b.pc = "run"
    /\ Top(lcr.b).phase = "enter"

\* C17: during lcr(T, L) every range that the two builds give to RollingHash::query
\* ends at or before n = |T|
C17_ReadsInRange == LcrAtDfsEntry => \A e \in ReadEnds(lcr.b) : e <= Len(lcr.b.t)

\* C18: in every run of lcr(T, L) each of the two calls of Ssa::new gets an index
\* vector whose entries are all below n = |T|, the mirrored indices n - m included
C18_IdxsBelowN ==
    (lcr.pc \in {"ssa1", "ssa2"} /\ lcr.b.pc \in {"run", "done"}) =>
        \A k \in 1..Len(lcr.b.idxs) : lcr.b.idxs[k] < Len(lcr.b.t)

\* C19: when lcr(T, L) returns, the buffer T holds the contents it had at the call; it
\* is reversed while the second build runs, and only then
C19_TextRestored ==
    /\ lcr.pc = "done" => lcr.t = lcr.t0
    /\ lcr.pc \in {"windows", "ssa1", "mcw"} => lcr.t = lcr.t0
    /\ lcr.pc = "ssa2" => lcr.t = Reverse(lcr.t0)

\* a returned call on a text that is no palindrome, after both builds sorted two
\* suffixes or more
C19_Witness ==
    /\ lcr.pc = "done"
    /\ lcr.t0 # Reverse(lcr.t0)
    /\ Len(lcr.minimizers) >= 2
    /\ lcr.t = lcr.t0

\* the cache holds a group record at offset c: a witness, a length of two or more,
\* and that many indices
IsRecord(st, c) ==
    /\ c >= 0 /\ c + 1 < Len(st.cache)
    /\ At(st.cache, c + 1) >= 2
    /\ c + 2 + At(st.cache, c + 1) <= Len(st.cache)

\* the indices of the record at offset c
MembersOf(st, c) == {At(st.cache, c + 2 + k) : k \in 0..(At(st.cache, c + 1) - 1)}

\* the prefix length established for the record at offset c: group_lcp + l of the
\* call that deferred it, the suspended call with the greatest old_cache_len <= c
EstablishedPrefix(st, c) ==
    LET owners == {p \in 1..Len(st.stack) :
                     st.stack[p].phase = "expand" /\ st.stack[p].old_cache_len <= c}
        own == CHOOSE p \in owners : \A q \in owners : q <= p
    IN  IF owners = {} THEN -1 ELSE st.stack[own].group_lcp + st.stack[own].l

RECURSIVE IdxIsSound(_, _)
\* idx is a text position, or the sentinel of a record whose witness is a text
\* position that shares the established prefix with the witness of every member
IdxIsSound(st, idx) ==
    IF idx < Len(st.t) THEN witness(idx, st.t, st.cache) = idx
    ELSE LET c == idx - Len(st.t) - 1
         IN  /\ IsRecord(st, c)
             /\ witness(idx, st.t, st.cache) = At(st.cache, c)
             /\ At(st.cache, c) < Len(st.t)
             /\ EstablishedPrefix(st, c) >= 1
             /\ \A m \in MembersOf(st, c) :
                   /\ IdxIsSound(st, m)
                   /\ lcp(st.t, At(st.cache, c), witness(m, st.t, st.cache))
                          >= EstablishedPrefix(st, c)

\* C20: while a build over indices below n runs, every idx of the main array is a
\* text position below n or the sentinel n + 1 + c of a group record stored at offset
\* c of the cache; witness gives the position itself or the stored witness, a text
\* position whose suffix shares the established prefix of the group
C20_SentinelsResolve ==
    (ssa.pc = "run" /\ \A k \in 1..Len(ssa.idxs) : ssa.idxs[k] < Len(ssa.t)) =>
        \A k \in 1..Len(ssa.starts) : IdxIsSound(ssa, ssa.starts[k].idx)

\* the dfs call on top has sorted its compacted slice, put its groups back and
\* recursed on each of them: its next step is its return
DfsAtReturn(st) ==
    /\ st.pc = "run"
    /\ Top(st).phase = "groups"
    /\ SkipNone(StartsOf(st), Top(st).i) >= Len(StartsOf(st))

\* the hash that put item k of the slice of the call on top in its group: the query
\* of l bytes at witness + group_lcp
GroupHash(st, k) ==
    LET w == witness(StartsOf(st)[k].idx, st.t, st.cache)
    IN  RollingHashQuery(st.hasher, w + Top(st).group_lcp, w + Top(st).group_lcp + Top(st).l)

\* C21 as stated: when a dfs call that split its slice returns, lcp_out is exactly
\* group_lcp between adjacent items of different groups, and more than group_lcp
\* between adjacent items of one deferred group
C21_BoundaryIsGroupLcp ==
    DfsAtReturn(ssa) =>
        \A k \in 1..(Len(StartsOf(ssa)) - 1) :
            IF GroupHash(ssa, k) # GroupHash(ssa, k + 1)
            THEN LcpOutOf(ssa)[k] = Top(ssa).group_lcp
            ELSE LcpOutOf(ssa)[k] > Top(ssa).group_lcp

\* C21 amended: when a dfs call that split its slice returns, lcp_out is at least
\* group_lcp and less than group_lcp + l between adjacent items of different groups,
\* and at least group_lcp + l between adjacent items of one deferred group
C21_BoundaryBelowL ==
    DfsAtReturn(ssa) =>
        \A k \in 1..(Len(StartsOf(ssa)) - 1) :
            IF GroupHash(ssa, k) # GroupHash(ssa, k + 1)
            THEN /\ LcpOutOf(ssa)[k] >= Top(ssa).group_lcp
                 /\ LcpOutOf(ssa)[k] < Top(ssa).group_lcp + Top(ssa).l
            ELSE LcpOutOf(ssa)[k] >= Top(ssa).group_lcp + Top(ssa).l

\* a returning call with two groups that agree on a byte past group_lcp, and a
\* deferred group
C21_Witness ==
    /\ DfsAtReturn(ssa)
    /\ \E k \in 1..(Len(StartsOf(ssa)) - 1) :
          /\ GroupHash(ssa, k) # GroupHash(ssa, k + 1)
          /\ LcpOutOf(ssa)[k] > Top(ssa).group_lcp
          /\ LcpOutOf(ssa)[k] < Top(ssa).group_lcp + Top(ssa).l
    /\ \E k \in 1..(Len(StartsOf(ssa)) - 1) :
          /\ GroupHash(ssa, k) = GroupHash(ssa, k + 1)
          /\ LcpOutOf(ssa)[k] >= Top(ssa).group_lcp + Top(ssa).l

\* the dfs call at depth q of the stack has split its slice into more than one hash
\* group: it waits for the sort of its compacted slice or recurses on its groups
HasSplit(st, q) == st.stack[q].phase \in {"expand", "groups"}

\* C22: in a build started in exponential-search mode, every dfs call that descends
\* from a call that has split its slice runs in binary-search mode, and the call a
\* split call makes has half its l
C22_BinaryAfterSplit ==
    (ssa.pc = "run" /\ ssa.exp_search) =>
        \A q \in 1..Len(ssa.stack) : \A p \in (q + 1)..Len(ssa.stack) :
            HasSplit(ssa, q) =>
                /\ ~ssa.stack[p].exp_search
                /\ p = q + 1 => ssa.stack[p].l = ssa.stack[q].l \div 2

\* the least e with 2^e >= x, for x >= 1
CeilLog2(x) == IF x <= 1 THEN 0 ELSE ilog2(x - 1) + 1

\* the build under way is a call of Ssa::new, at the entry of its first dfs call
AtNewEntry(st) ==
    /\ st.pc = "run"
    /\ Len(st.stack) = 1
    /\ Top(st).phase = "enter"
    /\ Head(st.calls) = SsaNewCall(st.idxs)

\* C23: Ssa::new(T, I) starts dfs with l = next_pow2(ceil(log2 |I|) / 2), with
\* exponential search on and with group_lcp = 0
C23_NewStartsAtHalfLog ==
    AtNewEntry(ssa) =>
        /\ Top(ssa).l = next_power_of_two(CeilLog2(Len(ssa.idxs)) \div 2)
        /\ Top(ssa).exp_search
        /\ Top(ssa).group_lcp = 0

\* the last of the positions of a minimum-hash kmer among the w kmers at i..i+w-1
RightmostMin(s, k, w, i) ==
    CHOOSE p \in i..(i + w - 1) :
        /\ IsWindowMin(s, k, w, i, p)
        /\ \A q \in i..(i + w - 1) : IsWindowMin(s, k, w, i, q) => q <= p

RECURSIVE Dedup(_)
\* v with each run of equal entries shortened to one
Dedup(v) ==
    IF Len(v) <= 1 THEN v
    ELSE IF v[1] = v[2] THEN Dedup(Tail(v))
    ELSE <<v[1]>> \o Dedup(Tail(v))

\* the rightmost minimum of every window of w kmers of s, each once
WindowMinima(s, k, w) ==
    Dedup([i \in 1..NumWindows(s, w + k - 1) |-> RightmostMin(s, k, w, i - 1)])

\* C24: for every text over {A,C,G,T}, w >= 1 and 1 <= k <= n, minimizers_nthash and
\* minimizers_daniel, on the same kmer hashes, return the same vector: the rightmost
\* minimum-hash kmer position of every window of w kmers, each once, in increasing order
C24_NthashIsDaniel ==
    lcr.pc \in {"equal", "panic"} =>
        /\ lcr.pc = "equal"
        /\ lcr.ms1 = lcr.ms2
        /\ lcr.ms1 = WindowMinima(lcr.s, lcr.k, lcr.w)
        /\ \A x \in 1..(Len(lcr.ms1) - 1) : lcr.ms1[x] < lcr.ms1[x + 1]

\* the two agree on a text where a minimum leaves the window and where two kmers of
\* a window tie
C24_Witness ==
    /\ lcr.pc = "equal"
    /\ Len(lcr.ms1) >= 3
    /\ lcr.ms1 = lcr.ms2
    /\ \E i \in 0..(Len(lcr.s) - lcr.k - lcr.w + 1) : \E p \in i..(i + lcr.w - 1) :
          /\ p # RightmostMin(lcr.s, lcr.k, lcr.w, i)
          /\ IsWindowMin(lcr.s, lcr.k, lcr.w, i, p)

\* some adjacent pair of the sa is out of order: t[sa[i]..] > t[sa[i+1]..]
OutOfOrder(t, sa) == \E i \in 1..(Len(sa) - 1) : SuffixLess(t, sa[i + 1], sa[i])

\* C25: Ssa::verify(T) aborts with "Bad order" whenever some adjacent pair of the stored
\* SA is out of order, also when the stored LCP values are the true common prefixes
C25_BadOrderAborts ==
    (ssa.pc \in {"verified", "bad_order", "bad_lcp"} /\ OutOfOrder(ssa.t, ssa.sa)) =>
        ssa.pc = "bad_order"

\* how far the dfs call of the frame f has come: its entry, its wait for the sort of
\* the whole or the compacted slice, or its loop over the groups at item i
FramePos(f) ==
    IF f.phase = "enter" THEN 0
    ELSE IF f.phase \in {"tail", "expand"} THEN 1
    ELSE 2 + f.i

\* the stack s2 is further on than the stack s1: at the first depth where they differ
\* the call of s1 has returned or has moved on
FurtherOn(s1, s2) ==
    \E p \in 1..Len(s1) :
        /\ \A q \in 1..(p - 1) : q <= Len(s2) /\ FramePos(s2[q]) = FramePos(s1[q])
        /\ p > Len(s2) \/ FramePos(s2[p]) > FramePos(s1[p])

\* the call c made by the call f works within the slice of f, and either halves l in
\* binary-search mode or, doubling l, extends group_lcp by l within the text
CallIsSmaller(t, f, c) ==
    /\ f.l >= 1
    /\ f.lo <= c.lo /\ c.hi <= f.hi
    /\ IF c.exp_search
       THEN f.exp_search /\ c.group_lcp = f.group_lcp + f.l /\ c.group_lcp <= Len(t)
       ELSE c.l = f.l \div 2

\* C26: for every text and every vector of distinct positions below n, in both search
\* modes, the recursion of a build terminates: along every chain of nested dfs calls
\* each call works in its caller's slice and halves l towards 0 or extends group_lcp
\* by l within the text, and every step of the build takes the chain further on
C26_DfsTerminates ==
    [][ssa'.pc = "run" =>
          /\ \A p \in 1..(Len(ssa'.stack) - 1) :
                CallIsSmaller(ssa'.t, ssa'.stack[p], ssa'.stack[p + 1])
          /\ ssa.pc = "run" => FurtherOn(ssa.stack, ssa'.stack)]_vars

\* a build in exponential-search mode in a chain of four calls, the last in
\* binary-search mode
C26_Witness ==
    /\ ssa.pc = "run"
    /\ Len(ssa.stack) >= 4
    /\ ssa.stack[2].exp_search
    /\ ~Top(ssa).exp_search
    /\ \A p \in 1..(Len(ssa.stack) - 1) : CallIsSmaller(ssa.t, ssa.stack[p], ssa.stack[p + 1])

\* the end of the range of entry j of the stack of st at position i of the sweep: the
\* position before the start of the next entry, or i for the top
RangeEnd(st, j, i) == IF j = Len(st.stack) THEN i ELSE st.stack[j + 1][1] - 1

\* the stack after the push of iteration i: right_lcp grows strictly from the bottom
\* to the top, the ranges tile [0, i] in stack order (only the initial (0, 0) has an
\* empty range), the right_lcp of an entry is a.lcp at the end of its range, and every
\* a.lcp inside the range is at least that
StackTiles(st, i) ==
    /\ st.stack # <<>>
    /\ st.stack[1][1] = 0
    /\ \A j \in 1..(Len(st.stack) - 1) : st.stack[j][2] < st.stack[j + 1][2]
    /\ \A j \in 1..Len(st.stack) :
          LET lo == st.stack[j][1]
              hi == RangeEnd(st, j, i)
          IN  IF hi < lo THEN j = 1 /\ hi = lo - 1 /\ st.stack[j] = <<0, 0>>
              ELSE /\ hi <= i
                   /\ At(st.a.lcp, hi) = st.stack[j][2]
                   /\ \A x \in lo..(hi - 1) : At(st.a.lcp, x) >= st.stack[j][2]

\* at a pop of (old_start, a_lcp) with the range [start, i] on its right, every pair u
\* in [old_start, start), v in [start, i] has min(a.lcp[u..v)) = a_lcp
PopPairsMin(st) ==
    LET top == st.stack[Len(st.stack)]
    IN  \A u \in top[1]..(st.start - 1) : \A v \in st.start..st.i :
            SliceMin(st.a.lcp, u, v) = top[2]

\* C27: in max_common_weight, after the push that ends iteration i of the sweep the
\* stack entries have strictly increasing right_lcp, their ranges tile [0, i] in stack
\* order and every a.lcp inside a range is at least the entry's right_lcp; and at each
\* pop with the value a_lcp every pair u in [old_start, start), v in [start, i] has
\* min(a.lcp[u..v)) = a_lcp
C27_StackIsMonotone ==
    [][/\ (mcw.pc = "while" /\ ~McwPopEnabled(mcw)) => StackTiles(mcw', mcw.i)
       /\ McwPopEnabled(mcw) => PopPairsMin(mcw)]_vars

\* a sweep at a pop that merges the range of one leaf with a range of two leaves on
\* its right, with the initial entry still on the stack
C27_Witness ==
    /\ McwPopEnabled(mcw)
    /\ Len(mcw.stack) >= 2
    /\ mcw.start - mcw.stack[Len(mcw.stack)][1] >= 1
    /\ mcw.i - mcw.start >= 1
    /\ PopPairsMin(mcw)

\* b_idx[lo..=hi] is sorted by B-position and holds the entries that get_permutation
\* gave to the A-indices lo..hi
IsSortedRun(st, lo, hi) ==
    /\ \A x \in lo..(hi - 1) : TupleLess(At(st.b_idx, x), At(st.b_idx, x + 1))
    /\ {At(st.b_idx, x) : x \in lo..hi}
           = {At(get_permutation(st.a, st.b), x) : x \in lo..hi}
    /\ \A x \in lo..hi : At(st.b_idx, x)[2] \in lo..hi

\* C28: in max_common_weight, right before each b_idx[old_start..=i].sort() the
\* sub-slices b_idx[old_start..start) and b_idx[start..=i] are each sorted by
\* B-position and hold exactly the entries whose A-index lies in their range, and so
\* does b_idx over the range of every entry of the stack
C28_SortIsMerge ==
    McwPopEnabled(mcw) =>
        /\ IsSortedRun(mcw, mcw.stack[Len(mcw.stack)][1], mcw.start - 1)
        /\ IsSortedRun(mcw, mcw.start, mcw.i)
        /\ \A j \in 1..Len(mcw.stack) :
              IsSortedRun(mcw, mcw.stack[j][1], RangeEnd(mcw, j, mcw.start - 1))

\* right before a sort that merges a run of two leaves, put in another order by an
\* earlier sort, with the leaf on its right
C28_Witness ==
    /\ McwPopEnabled(mcw)
    /\ mcw.start - mcw.stack[Len(mcw.stack)][1] >= 2
    /\ mcw.b_idx # get_permutation(mcw.a, mcw.b)
    /\ IsSortedRun(mcw, mcw.stack[Len(mcw.stack)][1], mcw.start - 1)
    /\ SortSlice(mcw.b_idx, mcw.stack[Len(mcw.stack)][1], mcw.i) # mcw.b_idx

====
